---- MODULE Spec2Model ----
(***************************************************************************)
(* PostgreSQL Database Exporter: the export worker of the GUI              *)
(* (src/src/gui/main_window.py), the structure and data exporters          *)
(* (src/src/database/structure.py, data.py), the connection wrapper        *)
(* (src/src/database/connection.py) and the value codec                    *)
(* (src/src/utils/sql_formatter.py).                                       *)
(*                                                                         *)
(* Spec     the export worker against a live database: every query may     *)
(*          fail, and other sessions may change rows, columns and tables   *)
(*          between two queries (the connection runs READ COMMITTED, no    *)
(*          snapshot is taken).                                            *)
(* SpecFmt  format_sql_value applied to one value, and the literal read    *)
(*          back as PostgreSQL reads it under the header's settings.       *)
(***************************************************************************)
EXTENDS Integers, Sequences, FiniteSets, TLC

\* ------------------------------------------------------------------ bounds
NumTables == 2
MaxRows == 3
MaxBatch == 2
MaxDisturbances == 1
MaxLen == 3
MaxInt == 12

\* Tables are named by their rank in table_name order (ORDER BY table_name).
Tables == 1..NumTables
RowIds == 1..(MaxRows + MaxDisturbances)
ColNames == {"id", "name", "extra"}
NumWorkers == 2
MaxIdLen == 3
MaxTypeArg == 2
MaxStatements == 2
MaxCols == 2
MaxCons == 2
Workers == 1..NumWorkers
InitColLists == {<<"id", "name">>}
BatchSizes == 1..MaxBatch
Modes == {"structure", "data", "both"}

\* ------------------------------------------------------------------ state
VARIABLES
    dbTables,         \* the schema's base tables (server side)
    dbCols,           \* table -> column names in ordinal position
    dbRows,           \* table -> rows in the scan order of the heap
    envOps,           \* statements other sessions committed during the export
    rowsTouched,      \* tables whose rows another session changed during the export
    colsTouched,      \* tables whose columns (or existence) another session changed
    connection,       \* DatabaseConnection.connection: "None" or "open"
    connAlive,        \* the server side of the connection still answers
    tx,               \* transaction status of the connection
    pc,               \* position of the worker thread
    phase,            \* "start", "structure" (export_all_structures), "data" (export_all_data)
    step,             \* position inside get_structure_sql / get_data_sql
    mode,             \* which generate_* button started the worker
    batch_size,
    tables,           \* the table list of the running export_all_* loop
    idx,              \* index of the loop's current table
    sql_code,         \* the document under construction: a sequence of entries
    total_rows,       \* locals of get_data_sql / _export_table_data
    escaped_columns,
    offset,
    sql,              \* INSERT statements of the current table so far
    columns,          \* local of get_structure_sql
    queries,          \* every statement executed on the cursor, in order
    requested,        \* block -> the table list its export_all_* loop iterates
    fpc,              \* SpecFmt: "in", "out", "back"
    fv,               \* SpecFmt: the value given to format_sql_value
    fout,             \* SpecFmt: the literal it returned
    fback,            \* SpecFmt: what the server reads the literal as
    ipc,              \* SpecId: "in", "out"
    identifier,       \* SpecId: the table or column name
    iout,             \* SpecId: what needs_quoting returned for it
    statements,       \* SpecId: the statements the exporters make with the name
    tpc,              \* SpecType: "in", "out"
    targs,            \* SpecType: one row of information_schema.columns
    tout,             \* SpecType: what _format_data_type returned
    npc,              \* SpecInfo: "loop", "done", "raised"
    ntables,          \* SpecInfo: the tables argument of get_tables_info
    nidx,             \* SpecInfo: index of the loop's current table
    tables_info,      \* SpecInfo: the dict under construction
    wpc,              \* SpecGui: worker thread -> its position
    db_conn,          \* SpecGui: worker thread -> the DatabaseConnection it made
    instances,        \* SpecGui: number of DatabaseConnection objects made so far
    wlog,             \* SpecGui: every statement executed, with thread and connection
    sql_text,         \* SpecGui: the content of the text widget
    current_sql_code, \* SpecGui: self.current_sql_code and the worker it came from
    saved,            \* SpecGui: the files save_sql_file wrote
    bpc,              \* SpecBuild: "in", "out"
    bcolumns,         \* SpecBuild: the rows of the columns query
    bconstraints,     \* SpecBuild: the rows of the constraints query
    bout,             \* SpecBuild: what get_structure_sql returned
    dbFks,            \* SpecOrder: table -> the tables its foreign keys reference
    sblock            \* SpecOrder: the structure block, one entry per table so far

dbVars == <<dbTables, dbCols, dbRows, envOps, rowsTouched, colsTouched>>
connVars == <<connection, connAlive, tx>>
loopVars == <<phase, mode, batch_size, tables, idx>>
dataLocals == <<total_rows, escaped_columns, offset, sql>>
fmtVars == <<fpc, fv, fout, fback>>
idVars == <<ipc, identifier, iout, statements>>
typeVars == <<tpc, targs, tout>>
infoVars == <<npc, ntables, nidx, tables_info>>
guiVars == <<wpc, db_conn, instances, wlog, sql_text, current_sql_code, saved>>
buildVars == <<bpc, bcolumns, bconstraints, bout>>
orderVars == <<dbFks, sblock>>
pureVars == <<fmtVars, idVars, typeVars, infoVars, guiVars, buildVars, orderVars>>
vars == <<dbVars, connVars, pc, step, loopVars, sql_code, dataLocals, columns,
          queries, requested, pureVars>>

\* ------------------------------------------------------------------ helpers
Min(a, b) == IF a < b THEN a ELSE b

RECURSIVE SortedSeq(_)
SortedSeq(S) ==
    IF S = {} THEN <<>>
    ELSE LET m == CHOOSE x \in S : \A y \in S : x <= y
         IN <<m>> \o SortedSeq(S \ {m})

Range(s) == {s[i] : i \in 1..Len(s)}

RemoveAt(s, i) == SubSeq(s, 1, i - 1) \o SubSeq(s, i + 1, Len(s))

\* One section of the document.  Every entry has the same fields; the ones a
\* kind does not use are empty.
Entry(kind, block, t, cols, count, inserts, msg) ==
    [kind |-> kind, block |-> block, table |-> t, cols |-> cols,
     count |-> count, inserts |-> inserts, msg |-> msg]

\* generate_sql_header(database)
HeaderEntry == Entry("header", "header", 0, <<>>, 0, <<>>, "")

\* The three banner lines export_all_structures / export_all_data start with.
BannerEntry(block) == Entry("banner", block, 0, <<>>, 0, <<>>, "")

\* "-- Structure could not be obtained for {table_name}"
StubEntry(t) == Entry("stub", "structure", t, <<>>, 0, <<>>, "")

\* _build_create_table_sql: DROP TABLE, CREATE TABLE with one line per column.
CreateEntry(t, cols) == Entry("create", "structure", t, cols, 0, <<>>, "")

\* "-- There is no data in {schema}.{escaped_table}"
NoDataEntry(t) == Entry("nodata", "data", t, <<>>, 0, <<>>, "")

\* The header comment of _export_table_data followed by its INSERT statements.
DataEntry(t, n, cols, inserts) == Entry("data", "data", t, cols, n, inserts, "")

\* "-- Error obtaining structure of {t}: {e}" / "-- Error exporting data from {t}: {e}"
ErrorEntry(block, t, e) == Entry("error", block, t, <<>>, 0, <<>>, e)

\* One INSERT INTO ... (cols) VALUES (row), (row), ...;
Insert(cols, rows) == [cols |-> cols, rows |-> rows]

\* A statement the cursor executed: what it asked, of which table, at which
\* OFFSET, how it ended ("ok" or the error) and how many rows (or which count)
\* it returned.
Query(q, t, off, res, n) == [q |-> q, table |-> t, offset |-> off, res |-> res, n |-> n]

BlockOf(q) == IF q \in {"columns", "constraints"} THEN "structure" ELSE "data"

\* ------------------------------------------------------------------ code
\* Mutant of NoColumns: the test for an empty column list is missing.
NoColumnsNever(cols) == FALSE

\* if not columns: (structure.py)
NoColumns(cols) == cols = <<>>

\* Mutant of IsNoData: the test for an empty table is missing.
IsNoDataNever(n) == FALSE

\* if total_rows == 0: (data.py)
IsNoData(n) == n = 0

\* Mutant of PageRows: every page starts one row too far.
PageRowsShifted(rows, batch, off) == SubSeq(rows, off + 2, Min(off + batch + 1, Len(rows)))

\* SELECT ... LIMIT batch OFFSET off, on the rows as the scan meets them.
PageRows(rows, batch, off) == SubSeq(rows, off + 1, Min(off + batch, Len(rows)))

\* Mutant of NextOffset: the offset advances by one row, not by one page.
NextOffsetByOne(off, batch) == off + 1

\* offset += batch_size
NextOffset(off, batch) == off + batch

\* Mutant of LoopContinues: the loop also runs at offset = total_rows.
LoopContinuesInclusive(off, n) == off <= n

\* while offset < total_rows:
LoopContinues(off, n) == off < n

\* Mutant of AppendPage: the rows of a page join the statement of the page
\* before it.
AppendPageMerged(stmts, cols, rows) ==
    IF rows = <<>> THEN stmts
    ELSE IF stmts = <<>> THEN <<Insert(cols, rows)>>
    ELSE [stmts EXCEPT ![Len(stmts)] = Insert(cols, stmts[Len(stmts)].rows \o rows)]

\* if rows: one INSERT for the page, nothing for an empty page.
AppendPage(stmts, cols, rows) ==
    IF rows # <<>> THEN Append(stmts, Insert(cols, rows)) ELSE stmts

\* Mutant of NextPhase: generate_both runs the data exporter first.
NextPhaseDataFirst(m, ph) ==
    CASE ph = "start" -> IF m = "structure" THEN "structure" ELSE "data"
      [] ph = "data" -> IF m = "both" THEN "structure" ELSE "show"
      [] OTHER -> "show"

\* The order in which a worker runs the exporters: generate_structure and
\* generate_data run one, generate_both the structure exporter and then the
\* data exporter.
NextPhase(m, ph) ==
    CASE ph = "start" -> IF m = "data" THEN "data" ELSE "structure"
      [] ph = "structure" -> IF m = "both" THEN "data" ELSE "show"
      [] OTHER -> "show"

\* get_cursor: "if not self.connection or not self.cursor: raise"
HasCursor == connection # "None"

\* The outcomes of cursor.execute: the statement runs only on a live
\* connection outside an aborted transaction and when the relations and
\* columns it names exist; it may fail at any time (lock timeout, permission,
\* network), and a lost connection stays lost.
\* Disturbances of one export: statements of other sessions, and failures
\* that nothing in the model forces (a cancelled statement, the connection
\* dropping).
Disturbances ==
    envOps + Cardinality({i \in DOMAIN queries :
                             queries[i].res \in {"QueryCanceled", "ConnLost"}})
Spontaneous ==
    IF Disturbances < MaxDisturbances THEN {"QueryCanceled", "ConnLost"} ELSE {}
Outcomes(valid) ==
    IF ~HasCursor THEN {"NoActiveConnection"}
    ELSE IF ~connAlive THEN {"ConnClosed"}
    ELSE IF tx = "aborted" THEN {"InFailedTransaction"}
    ELSE IF ~valid THEN {"UndefinedObject"}
    ELSE {"ok"} \cup Spontaneous

\* get_cursor's "except Exception: self.connection.rollback(); raise": the
\* rollback ends the aborted transaction; on a lost connection the rollback
\* itself raises and that exception is the one the caller's handler sees.
RollbackRaises(err) == err \in {"ConnLost", "ConnClosed"}

\* Mutant of TxAfterException: get_cursor re-raises without a rollback.
TxAfterExceptionNoRollback(err) ==
    IF err = "NoActiveConnection" THEN tx ELSE "aborted"

\* The transaction after an exception left the "with" block: the failed
\* statement aborted it, the rollback (when it worked) ended it.
TxAfterException(err) ==
    IF err = "NoActiveConnection" THEN tx
    ELSE IF RollbackRaises(err) THEN "aborted" ELSE "idle"
HandlerMessage(err) == IF RollbackRaises(err) THEN "ConnClosed" ELSE err

\* Mutant of Catches: the handler catches the errors of a statement only, not
\* the one a rollback on a closed connection raises.
CatchesStatementErrors(e) == e # "ConnClosed"

\* "except Exception as e" of get_structure_sql / get_data_sql: every error is
\* caught, whatever its class.
Catches(e) == TRUE

\* return f"-- Error ... {table_name}: {e}\n\n"
ErrorResult(block, t, e) == <<ErrorEntry(block, t, e)>>

\* return f"-- Structure could not be obtained for {table_name}\n\n"
StubResult(t) == <<StubEntry(t)>>

\* Mutant of NoDataResult: an empty table contributes nothing to the document.
NoDataResultEmpty(t) == <<>>

\* return f"-- There is no data in {schema}.{escaped_table}\n\n"
NoDataResult(t) == <<NoDataEntry(t)>>

\* What information_schema.columns holds for a table (nothing for a missing one).
CatalogColumns(t) == IF t \in dbTables THEN dbCols[t] ELSE <<>>

FirstStep(ph) == IF ph = "structure" THEN "columns" ELSE "count"

NoLocals ==
    /\ total_rows' = 0
    /\ escaped_columns' = <<>>
    /\ offset' = 0
    /\ sql' = <<>>
    /\ columns' = <<>>

\* The end of an export_all_* loop: return sql, and the worker goes on.
PhaseEnd ==
    LET np == NextPhase(mode, phase)
    IN /\ phase' = np
       /\ pc' = IF np = "show" THEN "show" ELSE "get_tables"
       /\ tables' = <<>>
       /\ idx' = 0
       /\ step' = "-"

\* "sql += self.get_..._sql(table, ...)" and the loop's next iteration.
FinishTable(result) ==
    /\ sql_code' = sql_code \o result
    /\ NoLocals
    /\ IF idx < Len(tables)
       THEN /\ idx' = idx + 1
            /\ step' = FirstStep(phase)
            /\ UNCHANGED <<pc, phase, tables>>
       ELSE PhaseEnd
    /\ UNCHANGED <<mode, batch_size>>

\* An exception inside the "with get_cursor()" of a table: the context manager
\* rolls back and re-raises, the method's handler turns it into a comment.  An
\* exception the handler did not catch would unwind export_all_* and reach the
\* worker's handler, which drops the document.
Raise(q, t, off, err) ==
    /\ queries' = IF err = "NoActiveConnection" THEN queries
                  ELSE Append(queries, Query(q, t, off, err, 0))
    /\ connAlive' = (connAlive /\ ~RollbackRaises(err))
    /\ tx' = TxAfterException(err)
    /\ UNCHANGED <<connection, requested>>
    /\ IF Catches(HandlerMessage(err))
       THEN FinishTable(ErrorResult(BlockOf(q), t, HandlerMessage(err)))
       ELSE /\ pc' = "failed"
            /\ sql_code' = <<>>
            /\ NoLocals
            /\ step' = "-"
            /\ UNCHANGED loopVars

\* ------------------------------------------------------------------ codec
\* Text is a sequence of characters.  A value is given by its Python type and
\* what the codec reads of it: s is the text of a str, the isoformat() of a
\* date-like value, the repr of a float and the str() of any other object; b
\* the truth value of a bool; n the number of an int.
Quote == "'"
Backslash == "\\"
Chars == {"a", "b", Quote, Backslash}
IsoChars == {"1", "-"}

RECURSIVE SeqsUpTo(_, _)
SeqsUpTo(S, n) ==
    IF n = 0 THEN {<<>>}
    ELSE LET shorter == SeqsUpTo(S, n - 1)
         IN shorter \cup {Append(x, c) : x \in shorter, c \in S}

Texts == SeqsUpTo(Chars, MaxLen)

Value(type, s, b, n) == [type |-> type, s |-> s, b |-> b, n |-> n]

Values ==
    {Value("none", <<>>, FALSE, 0)}
    \cup {Value("str", s, FALSE, 0) : s \in Texts}
    \cup {Value("bool", <<>>, b, 0) : b \in BOOLEAN}
    \cup {Value("int", <<>>, FALSE, n) : n \in -MaxInt..MaxInt}
    \cup {Value("float", s, FALSE, 0) : s \in {<<"3", ".", "5">>, <<"-", "0", ".", "0">>}}
    \cup {Value("date", s, FALSE, 0) : s \in SeqsUpTo(IsoChars, 2) \ {<<>>}}
    \cup {Value("other", s, FALSE, 0) : s \in Texts}

\* str.replace(old, new) for a one-character old: left to right, every
\* occurrence, the replacement text is not scanned again.
RECURSIVE Replace(_, _, _)
Replace(s, old, new) ==
    IF s = <<>> THEN <<>>
    ELSE (IF Head(s) = old THEN new ELSE <<Head(s)>>) \o Replace(Tail(s), old, new)

\* Mutant of EscapeText: the quote is escaped with a backslash, which the
\* second replacement then doubles.
EscapeTextCascaded(s) ==
    Replace(Replace(s, Quote, <<Backslash, Quote>>), Backslash, <<Backslash, Backslash>>)

\* value.replace("'", "''").replace("\\", "\\\\")
EscapeText(s) == Replace(Replace(s, Quote, <<Quote, Quote>>), Backslash, <<Backslash, Backslash>>)

\* str(int)
Digit(d) == CASE d = 0 -> "0" [] d = 1 -> "1" [] d = 2 -> "2" [] d = 3 -> "3"
              [] d = 4 -> "4" [] d = 5 -> "5" [] d = 6 -> "6" [] d = 7 -> "7"
              [] d = 8 -> "8" [] OTHER -> "9"
RECURSIVE NatToStr(_)
NatToStr(n) == IF n < 10 THEN <<Digit(n)>> ELSE Append(NatToStr(n \div 10), Digit(n % 10))
IntToStr(n) == IF n < 0 THEN <<"-">> \o NatToStr(-n) ELSE NatToStr(n)

\* isinstance(value, (int, float)): a bool is an int too.
IsNumber(v) == v.type \in {"bool", "int", "float"}

\* str(value) of a number.
NumberText(v) ==
    CASE v.type = "int" -> IntToStr(v.n)
      [] v.type = "float" -> v.s
      [] OTHER -> IF v.b THEN <<"T", "r", "u", "e">> ELSE <<"F", "a", "l", "s", "e">>

\* f"'{str(value)}'": the last branch of format_sql_value.
FormatOther(v) == <<Quote>> \o v.s \o <<Quote>>

\* Mutant of format_sql_value: the number test comes before the bool test, so
\* a bool (an int in Python) leaves as str(value).
format_sql_value_NumbersFirst(v) ==
    IF v.type = "none" THEN <<"N", "U", "L", "L">>
    ELSE IF v.type = "str" THEN <<Quote>> \o EscapeText(v.s) \o <<Quote>>
    ELSE IF IsNumber(v) THEN NumberText(v)
    ELSE IF v.type = "bool"
         THEN (IF v.b THEN <<"T", "R", "U", "E">> ELSE <<"F", "A", "L", "S", "E">>)
    ELSE IF v.type = "date" THEN <<Quote>> \o v.s \o <<Quote>>
    ELSE FormatOther(v)

format_sql_value(v) ==
    IF v.type = "none" THEN <<"N", "U", "L", "L">>
    ELSE IF v.type = "str" THEN <<Quote>> \o EscapeText(v.s) \o <<Quote>>
    ELSE IF v.type = "bool"
         THEN (IF v.b THEN <<"T", "R", "U", "E">> ELSE <<"F", "A", "L", "S", "E">>)
    ELSE IF IsNumber(v) THEN NumberText(v)
    ELSE IF v.type = "date" THEN <<Quote>> \o v.s \o <<Quote>>
    ELSE FormatOther(v)

\* How the server reads a string literal under the header's
\* "SET standard_conforming_strings = on": the text between the quotes, two
\* quotes standing for one, a backslash for itself; the first single quote
\* that is not doubled ends the literal.  ok says that the literal ends
\* exactly where the text ends.
RECURSIVE ScanLiteral(_, _, _)
ScanLiteral(lit, i, acc) ==
    IF i > Len(lit) THEN [ok |-> FALSE, s |-> acc]
    ELSE IF lit[i] = Quote
         THEN IF i < Len(lit) /\ lit[i + 1] = Quote
              THEN ScanLiteral(lit, i + 2, Append(acc, Quote))
              ELSE [ok |-> i = Len(lit), s |-> acc]
         ELSE ScanLiteral(lit, i + 1, Append(acc, lit[i]))

ReadLiteral(lit) ==
    IF lit = <<>> \/ lit[1] # Quote THEN [ok |-> FALSE, s |-> <<>>]
    ELSE ScanLiteral(lit, 2, <<>>)

\* ------------------------------------------------------------------ worker
\* generate_structure / generate_data / generate_both: the button handler
\* starts the worker thread.
Generate(m, b) ==
    /\ pc = "idle"
    /\ pc' = "connect"
    /\ mode' = m
    /\ batch_size' = b
    /\ UNCHANGED <<dbVars, connVars, step, phase, tables, idx, sql_code, dataLocals,
                   columns, queries, requested, pureVars>>

\* with DatabaseConnection(**params) as db_conn: connect() returns False on
\* any error and leaves connection None; the worker then raises "Unable to
\* establish connection".  Otherwise sql_code = generate_sql_header(...).
Connect ==
    /\ pc = "connect"
    /\ \E ok \in BOOLEAN :
         IF ok
         THEN /\ connection' = "open"
              /\ connAlive' = TRUE
              /\ sql_code' = <<HeaderEntry>>
              /\ phase' = NextPhase(mode, "start")
              /\ pc' = "get_tables"
         ELSE /\ connection' = "None"
              /\ connAlive' = FALSE
              /\ sql_code' = <<>>
              /\ phase' = "start"
              /\ pc' = "failed"
    /\ UNCHANGED <<dbVars, tx, step, mode, batch_size, tables, idx, dataLocals,
                   columns, queries, requested, pureVars>>

\* export_all_structures / export_all_data with tables=None: get_tables, which
\* returns [] when its query fails, then the banner and the loop.
GetTables ==
    /\ pc = "get_tables"
    /\ \E o \in Outcomes(TRUE) :
         LET found == IF o = "ok" THEN SortedSeq(dbTables) ELSE <<>>
         IN /\ queries' = IF o = "NoActiveConnection" THEN queries
                          ELSE Append(queries, Query("tables", 0, 0, o, Len(found)))
            /\ connAlive' = (connAlive /\ ~RollbackRaises(o))
            /\ tx' = IF o = "ok" THEN "active" ELSE TxAfterException(o)
            /\ requested' = [requested EXCEPT ![phase] = found]
            /\ sql_code' = Append(sql_code, BannerEntry(phase))
            /\ IF found # <<>>
               THEN /\ tables' = found
                    /\ idx' = 1
                    /\ step' = FirstStep(phase)
                    /\ pc' = "table"
                    /\ UNCHANGED phase
               ELSE PhaseEnd
    /\ UNCHANGED <<dbVars, connection, mode, batch_size, dataLocals, columns, pureVars>>

\* get_structure_sql, up to "if not columns".
StructColumns ==
    /\ pc = "table" /\ phase = "structure" /\ step = "columns"
    /\ LET t == tables[idx]
       IN \E o \in Outcomes(TRUE) :
            IF o = "ok"
            THEN LET cols == CatalogColumns(t)
                 IN /\ queries' = Append(queries, Query("columns", t, 0, o, Len(cols)))
                    /\ tx' = "active"
                    /\ UNCHANGED <<connection, connAlive, requested>>
                    /\ IF NoColumns(cols)
                       THEN FinishTable(StubResult(t))
                       ELSE /\ columns' = cols
                            /\ step' = "constraints"
                            /\ UNCHANGED <<pc, loopVars, sql_code, dataLocals>>
            ELSE Raise("columns", t, 0, o)
    /\ UNCHANGED <<dbVars, pureVars>>

\* get_structure_sql, the constraint query and _build_create_table_sql.
StructConstraints ==
    /\ pc = "table" /\ phase = "structure" /\ step = "constraints"
    /\ LET t == tables[idx]
       IN \E o \in Outcomes(TRUE) :
            IF o = "ok"
            THEN /\ queries' = Append(queries, Query("constraints", t, 0, o, 0))
                 /\ tx' = "active"
                 /\ UNCHANGED <<connection, connAlive, requested>>
                 /\ FinishTable(<<CreateEntry(t, columns)>>)
            ELSE Raise("constraints", t, 0, o)
    /\ UNCHANGED <<dbVars, pureVars>>

\* get_data_sql: SELECT COUNT(*) and "if total_rows == 0".
DataCount ==
    /\ pc = "table" /\ phase = "data" /\ step = "count"
    /\ LET t == tables[idx]
       IN \E o \in Outcomes(t \in dbTables) :
            IF o = "ok"
            THEN LET n == Len(dbRows[t])
                 IN /\ queries' = Append(queries, Query("count", t, 0, o, n))
                    /\ tx' = "active"
                    /\ UNCHANGED <<connection, connAlive, requested>>
                    /\ IF IsNoData(n)
                       THEN FinishTable(NoDataResult(t))
                       ELSE /\ total_rows' = n
                            /\ step' = "colnames"
                            /\ UNCHANGED <<pc, loopVars, sql_code, escaped_columns,
                                           offset, sql, columns>>
            ELSE Raise("count", t, 0, o)
    /\ UNCHANGED <<dbVars, pureVars>>

\* get_data_sql: the column-name query, then _export_table_data up to its
\* first test of "while offset < total_rows".
DataColumns ==
    /\ pc = "table" /\ phase = "data" /\ step = "colnames"
    /\ LET t == tables[idx]
       IN \E o \in Outcomes(TRUE) :
            IF o = "ok"
            THEN LET cols == CatalogColumns(t)
                 IN /\ queries' = Append(queries, Query("colnames", t, 0, o, Len(cols)))
                    /\ tx' = "active"
                    /\ UNCHANGED <<connection, connAlive, requested>>
                    /\ IF LoopContinues(0, total_rows)
                       THEN /\ escaped_columns' = cols
                            /\ offset' = 0
                            /\ sql' = <<>>
                            /\ step' = "page"
                            /\ UNCHANGED <<pc, loopVars, sql_code, total_rows, columns>>
                       ELSE FinishTable(<<DataEntry(t, total_rows, cols, <<>>)>>)
            ELSE Raise("colnames", t, 0, o)
    /\ UNCHANGED <<dbVars, pureVars>>

\* One iteration of the paging loop of _export_table_data; after the last one
\* the method returns the header comment with the INSERT statements.
DataPage ==
    /\ pc = "table" /\ phase = "data" /\ step = "page"
    /\ LET t == tables[idx]
           valid == t \in dbTables /\ Range(escaped_columns) \subseteq Range(dbCols[t])
       IN \E o \in Outcomes(valid) :
            IF o = "ok"
            THEN LET rows == PageRows(dbRows[t], batch_size, offset)
                     stmts == AppendPage(sql, escaped_columns, rows)
                     off == NextOffset(offset, batch_size)
                 IN /\ queries' = Append(queries, Query("page", t, offset, o, Len(rows)))
                    /\ tx' = "active"
                    /\ UNCHANGED <<connection, connAlive, requested>>
                    /\ IF LoopContinues(off, total_rows)
                       THEN /\ sql' = stmts
                            /\ offset' = off
                            /\ UNCHANGED <<pc, step, loopVars, sql_code, total_rows,
                                           escaped_columns, columns>>
                       ELSE FinishTable(<<DataEntry(t, total_rows, escaped_columns, stmts)>>)
            ELSE Raise("page", t, offset, o)
    /\ UNCHANGED <<dbVars, pureVars>>

\* The end of the worker: __exit__ disconnects and show_sql_in_text_widget is
\* scheduled with the document.
Show ==
    /\ pc = "show"
    /\ pc' = "done"
    /\ connection' = "None"
    /\ connAlive' = FALSE
    /\ tx' = "idle"
    /\ UNCHANGED <<dbVars, step, loopVars, sql_code, dataLocals, columns, queries,
                   requested, pureVars>>

\* ------------------------------------------------------------------ database
\* Statements other sessions commit while the export runs.  The exporter's
\* connection never asks for a snapshot, so each of its queries sees whatever
\* is committed when it runs.  A statement is modelled at the last moment
\* before the query that first observes it: committed earlier it has the same
\* effect on the export, and one that no later query observes has none.
EnvActive == pc \in {"get_tables", "table"} /\ Disturbances < MaxDisturbances

\* The worker's next statement is a query on the rows of t: other sessions'
\* INSERT and DELETE go on while the export reads the table.
Current(t) == pc = "table" /\ tables[idx] = t
ReadsRows(t) == Current(t) /\ step \in {"count", "page"}

\* The worker is about to start get_structure_sql or get_data_sql on t.  Its
\* catalog queries lock no table, so ALTER TABLE and DROP TABLE of another
\* session go through here; once SELECT COUNT(*) has read t, the open
\* transaction holds a lock on t that keeps them waiting until the worker
\* is done with the table.
ReadsColumns(t) == Current(t) /\ step \in {"columns", "count"}
ReadsTable(t) == pc = "get_tables" \/ ReadsColumns(t)

FreshRow(t) == CHOOSE r \in RowIds : r \notin Range(dbRows[t])

EnvInsertRow(t) ==
    /\ EnvActive /\ t \in dbTables /\ ReadsRows(t)
    /\ dbRows' = [dbRows EXCEPT ![t] = Append(@, FreshRow(t))]
    /\ rowsTouched' = rowsTouched \cup {t}
    /\ envOps' = envOps + 1
    /\ UNCHANGED <<dbTables, dbCols, colsTouched, connVars, pc, step, loopVars,
                   sql_code, dataLocals, columns, queries, requested, pureVars>>

EnvDeleteRow(t) ==
    /\ EnvActive /\ t \in dbTables /\ ReadsRows(t)
    /\ \E i \in 1..Len(dbRows[t]) : dbRows' = [dbRows EXCEPT ![t] = RemoveAt(@, i)]
    /\ rowsTouched' = rowsTouched \cup {t}
    /\ envOps' = envOps + 1
    /\ UNCHANGED <<dbTables, dbCols, colsTouched, connVars, pc, step, loopVars,
                   sql_code, dataLocals, columns, queries, requested, pureVars>>

EnvAddColumn(t) ==
    /\ EnvActive /\ t \in dbTables /\ ReadsColumns(t)
    /\ \E c \in ColNames \ Range(dbCols[t]) : dbCols' = [dbCols EXCEPT ![t] = Append(@, c)]
    /\ colsTouched' = colsTouched \cup {t}
    /\ envOps' = envOps + 1
    /\ UNCHANGED <<dbTables, dbRows, rowsTouched, connVars, pc, step, loopVars,
                   sql_code, dataLocals, columns, queries, requested, pureVars>>

EnvDropColumn(t) ==
    /\ EnvActive /\ t \in dbTables /\ ReadsColumns(t)
    /\ \E i \in 1..Len(dbCols[t]) : dbCols' = [dbCols EXCEPT ![t] = RemoveAt(@, i)]
    /\ colsTouched' = colsTouched \cup {t}
    /\ envOps' = envOps + 1
    /\ UNCHANGED <<dbTables, dbRows, rowsTouched, connVars, pc, step, loopVars,
                   sql_code, dataLocals, columns, queries, requested, pureVars>>

EnvDropTable(t) ==
    /\ EnvActive /\ t \in dbTables /\ ReadsTable(t)
    /\ dbTables' = dbTables \ {t}
    /\ dbCols' = [dbCols EXCEPT ![t] = <<>>]
    /\ dbRows' = [dbRows EXCEPT ![t] = <<>>]
    /\ rowsTouched' = rowsTouched \cup {t}
    /\ colsTouched' = colsTouched \cup {t}
    /\ envOps' = envOps + 1
    /\ UNCHANGED <<connVars, pc, step, loopVars, sql_code, dataLocals, columns,
                   queries, requested, pureVars>>

\* ------------------------------------------------------------------ Spec
FmtOff ==
    /\ fpc = "off"
    /\ fv = Value("none", <<>>, FALSE, 0)
    /\ fout = <<>>
    /\ fback = [ok |-> FALSE, s |-> <<>>]

IdOff ==
    /\ ipc = "off"
    /\ identifier = <<>>
    /\ iout = FALSE
    /\ statements = {}

TypeOff ==
    /\ tpc = "off"
    /\ targs = [data_type |-> <<>>, char_max_len |-> <<>>,
                num_precision |-> <<>>, num_scale |-> <<>>]
    /\ tout = [name |-> <<>>, args |-> <<>>]

InfoOff ==
    /\ npc = "off"
    /\ ntables = <<>>
    /\ nidx = 0
    /\ tables_info = [t \in Tables |-> <<>>]

GuiOff ==
    /\ wpc = [w \in Workers |-> "off"]
    /\ db_conn = [w \in Workers |-> 0]
    /\ instances = 0
    /\ wlog = {}
    /\ sql_text = <<>>
    /\ current_sql_code = [text |-> <<>>, worker |-> 0]
    /\ saved = {}

BuildOff ==
    /\ bpc = "off"
    /\ bcolumns = <<>>
    /\ bconstraints = <<>>
    /\ bout = [result |-> "none", lines |-> <<>>]

OrderOff ==
    /\ dbFks = [t \in Tables |-> {}]
    /\ sblock = <<>>

InitialRows == {[i \in 1..n |-> i] : n \in 0..MaxRows}

RECURSIVE SumRows(_, _)
SumRows(rows, S) ==
    IF S = {} THEN 0
    ELSE LET t == CHOOSE x \in S : TRUE
         IN Len(rows[t]) + SumRows(rows, S \ {t})

Init ==
    /\ dbTables = Tables
    /\ dbCols \in [Tables -> InitColLists]
    /\ dbRows \in [Tables -> InitialRows]
    /\ SumRows(dbRows, Tables) <= MaxRows
    /\ envOps = 0
    /\ rowsTouched = {}
    /\ colsTouched = {}
    /\ connection = "None"
    /\ connAlive = FALSE
    /\ tx = "idle"
    /\ pc = "idle"
    /\ phase = "start"
    /\ step = "-"
    /\ mode = "both"
    /\ batch_size = 1
    /\ tables = <<>>
    /\ idx = 0
    /\ sql_code = <<>>
    /\ total_rows = 0
    /\ escaped_columns = <<>>
    /\ offset = 0
    /\ sql = <<>>
    /\ columns = <<>>
    /\ queries = <<>>
    /\ requested = [b \in {"structure", "data"} |-> <<>>]
    /\ FmtOff /\ IdOff /\ TypeOff /\ InfoOff /\ GuiOff /\ BuildOff /\ OrderOff

Next ==
    \/ \E m \in Modes, b \in BatchSizes : Generate(m, b)
    \/ Connect
    \/ GetTables
    \/ StructColumns
    \/ StructConstraints
    \/ DataCount
    \/ DataColumns
    \/ DataPage
    \/ Show
    \/ \E t \in Tables : EnvInsertRow(t)
    \/ \E t \in Tables : EnvDeleteRow(t)
    \/ \E t \in Tables : EnvAddColumn(t)
    \/ \E t \in Tables : EnvDropColumn(t)
    \/ \E t \in Tables : EnvDropTable(t)

Spec == Init /\ [][Next]_vars

\* ------------------------------------------------------------------ SpecFmt
\* The worker does not run while one value goes through the codec.
MainOff ==
    /\ dbTables = {}
    /\ dbCols = [t \in Tables |-> <<>>]
    /\ dbRows = [t \in Tables |-> <<>>]
    /\ envOps = 0
    /\ rowsTouched = {}
    /\ colsTouched = {}
    /\ connection = "None"
    /\ connAlive = FALSE
    /\ tx = "idle"
    /\ pc = "off"
    /\ phase = "start"
    /\ step = "-"
    /\ mode = "both"
    /\ batch_size = 1
    /\ tables = <<>>
    /\ idx = 0
    /\ sql_code = <<>>
    /\ total_rows = 0
    /\ escaped_columns = <<>>
    /\ offset = 0
    /\ sql = <<>>
    /\ columns = <<>>
    /\ queries = <<>>
    /\ requested = [b \in {"structure", "data"} |-> <<>>]

mainVars == <<dbVars, connVars, pc, step, loopVars, sql_code, dataLocals, columns,
              queries, requested>>

InitFmt ==
    /\ MainOff /\ IdOff /\ TypeOff /\ InfoOff /\ GuiOff /\ BuildOff /\ OrderOff
    /\ fpc = "in"
    /\ fv \in Values
    /\ fout = <<>>
    /\ fback = [ok |-> FALSE, s |-> <<>>]

\* formatted_values = [format_sql_value(value) for value in row]
FormatValue ==
    /\ fpc = "in"
    /\ fout' = format_sql_value(fv)
    /\ fpc' = "out"
    /\ UNCHANGED <<fv, fback, mainVars, idVars, typeVars, infoVars, guiVars, buildVars, orderVars>>

\* The INSERT is replayed: the server reads the literal.
ReadBack ==
    /\ fpc = "out"
    /\ fback' = ReadLiteral(fout)
    /\ fpc' = "back"
    /\ UNCHANGED <<fv, fout, mainVars, idVars, typeVars, infoVars, guiVars, buildVars, orderVars>>

NextFmt == FormatValue \/ ReadBack

SpecFmt == InitFmt /\ [][NextFmt]_vars

\* ------------------------------------------------------------------ claims
Blocks == {"structure", "data"}

\* The entries of one block that stand for a table, in document order.
TableEntries(b) == SelectSeq(sql_code, LAMBDA e : e.block = b /\ e.kind # "banner")
TablesOf(es) == [i \in 1..Len(es) |-> es[i].table]
IsPrefix(a, b) == Len(a) <= Len(b) /\ a = SubSeq(b, 1, Len(a))
Position(list, t) == CHOOSE i \in 1..Len(list) : list[i] = t
EntriesFor(b, t) == {j \in DOMAIN sql_code : sql_code[j].block = b /\ sql_code[j].table = t}
Finished == pc \in {"show", "done"}
Ceil(n, b) == (n + b - 1) \div b

\* C1: export_all_structures and export_all_data never raise (the worker
\* fails only when no connection could be opened, before any query); every
\* failed statement of a table's export left exactly one error comment that
\* names the table and carries the message of the exception caught; and once
\* the loops are over every table listed after the failed one has its entry.
C1_FailuresBecomeComments ==
    /\ pc = "failed" => queries = <<>>
    /\ \A i \in DOMAIN queries :
         LET r == queries[i]
             b == BlockOf(r.q)
         IN (r.q # "tables" /\ r.res # "ok") =>
              /\ Cardinality(EntriesFor(b, r.table)) = 1
              /\ \A j \in EntriesFor(b, r.table) :
                    sql_code[j] = ErrorEntry(b, r.table, HandlerMessage(r.res))
              /\ Finished =>
                    \A k \in DOMAIN requested[b] :
                        k > Position(requested[b], r.table) =>
                            EntriesFor(b, requested[b][k]) # {}

\* C1 witness: the first table's structure query failed, the export went on
\* and produced the second table's CREATE TABLE and finished.
C1_Witness ==
    /\ pc = "done"
    /\ \E i, j \in DOMAIN sql_code :
         /\ i < j
         /\ sql_code[i] = ErrorEntry("structure", 1, "QueryCanceled")
         /\ sql_code[j].kind = "create" /\ sql_code[j].table = 2

\* C2: in each block the table entries are, in order, the entries of the
\* first tables of the requested list, one each; when the export is over they
\* are the entries of the whole list; each is a table body, a stub or no-data
\* comment, or an error comment.
C2_OneEntryPerTable ==
    \A b \in Blocks :
        LET es == TableEntries(b)
        IN /\ IsPrefix(TablesOf(es), requested[b])
           /\ Finished => TablesOf(es) = requested[b]
           /\ (pc = "table" /\ phase = b) => Len(es) = idx - 1
           /\ \A i \in DOMAIN es :
                es[i].kind \in (IF b = "structure" THEN {"create", "stub", "error"}
                                ELSE {"data", "nodata", "error"})

\* C2 witness: a finished structure+data export of two tables in which one
\* entry is an error comment, one a no-data comment and one a data body.
C2_Witness ==
    /\ pc = "done" /\ mode = "both"
    /\ Len(requested["structure"]) = 2 /\ Len(requested["data"]) = 2
    /\ \E i, j, k \in DOMAIN sql_code :
         /\ sql_code[i].kind = "error"
         /\ sql_code[j].kind = "nodata"
         /\ sql_code[k].kind = "data"

\* C3: the data body of a table with N >= 1 rows that no other session
\* modified during the export holds ceil(N/B) INSERT statements, each of B
\* rows but the last, which has N - B*(ceil(N/B) - 1).
C3_BatchCounts ==
    \A j \in DOMAIN sql_code :
        LET e == sql_code[j]
            k == Len(e.inserts)
        IN (e.kind = "data" /\ e.table \notin rowsTouched) =>
             /\ e.count >= 1
             /\ e.count = Len(dbRows[e.table])
             /\ k = Ceil(e.count, batch_size)
             /\ \A i \in 1..(k - 1) : Len(e.inserts[i].rows) = batch_size
             /\ Len(e.inserts[k].rows) = e.count - batch_size * (k - 1)

\* C3 witness: three untouched rows exported in batches of two: INSERTs of
\* two rows and of one row.
C3_Witness ==
    \E j \in DOMAIN sql_code :
        /\ sql_code[j].kind = "data"
        /\ sql_code[j].table \notin rowsTouched
        /\ sql_code[j].count = 3 /\ batch_size = 2
        /\ Len(sql_code[j].inserts) = 2
        /\ Len(sql_code[j].inserts[1].rows) = 2
        /\ Len(sql_code[j].inserts[2].rows) = 1

\* C4: the column list of a table's CREATE TABLE equals the column list of
\* every INSERT emitted for that table in the same document.
C4_ColumnListsAgree ==
    \A i, j \in DOMAIN sql_code :
        (/\ sql_code[i].kind = "create"
         /\ sql_code[j].kind = "data"
         /\ sql_code[i].table = sql_code[j].table) =>
            \A k \in DOMAIN sql_code[j].inserts :
                sql_code[j].inserts[k].cols = sql_code[i].cols

\* C5: after a row count of 0 the table's data entry is the no-data comment
\* alone (no INSERT, no error) and no column-name or paging query of the
\* table was executed.
C5_EmptyTableOnlyComment ==
    \A i \in DOMAIN queries :
        LET r == queries[i]
        IN (r.q = "count" /\ r.res = "ok" /\ r.n = 0) =>
             /\ \A j \in DOMAIN queries :
                   ~(queries[j].table = r.table /\ queries[j].q \in {"colnames", "page"})
             /\ EntriesFor("data", r.table) # {}
             /\ \A j \in EntriesFor("data", r.table) :
                   sql_code[j] = NoDataEntry(r.table) /\ sql_code[j].inserts = <<>>

\* C5 witness: a finished export that met an empty table and, after it, a
\* table with data.
C5_Witness ==
    /\ pc = "done"
    /\ \E i, j \in DOMAIN sql_code :
         /\ i < j
         /\ sql_code[i] = NoDataEntry(1)
         /\ sql_code[j].kind = "data" /\ sql_code[j].table = 2

\* C6: after a column query that returned no rows the table's structure
\* entry is the stub comment alone (no CREATE TABLE, no error), the
\* constraint query of the table was not executed and the worker did not
\* fail; no CREATE TABLE has an empty column list.
C6_NoColumnsOnlyStub ==
    /\ \A i \in DOMAIN queries :
         LET r == queries[i]
         IN (r.q = "columns" /\ r.res = "ok" /\ r.n = 0) =>
              /\ \A j \in DOMAIN queries :
                    ~(queries[j].table = r.table /\ queries[j].q = "constraints")
              /\ EntriesFor("structure", r.table) # {}
              /\ \A j \in EntriesFor("structure", r.table) : sql_code[j] = StubEntry(r.table)
              /\ pc # "failed"
    /\ \A j \in DOMAIN sql_code : sql_code[j].kind = "create" => sql_code[j].cols # <<>>

\* C6 witness: the column query of a table found nothing (the table was
\* dropped after it had been listed) and the export finished.
C6_Witness ==
    /\ pc = "done"
    /\ \E i \in DOMAIN queries :
         queries[i].q = "columns" /\ queries[i].res = "ok" /\ queries[i].n = 0
    /\ \E j \in DOMAIN sql_code : sql_code[j].kind = "stub"

\* C7: the document starts with the header and holds no other; no entry of
\* the structure block comes after an entry of the data block; a finished
\* structure+data export holds both banners.
C7_HeaderStructureData ==
    /\ sql_code # <<>> =>
         /\ sql_code[1] = HeaderEntry
         /\ \A i \in 2..Len(sql_code) : sql_code[i].kind # "header"
    /\ \A i, j \in DOMAIN sql_code :
         (sql_code[i].block = "data" /\ sql_code[j].block = "structure") => j < i
    /\ (Finished /\ mode = "both") =>
         \E i, j \in DOMAIN sql_code :
            /\ i < j
            /\ sql_code[i] = BannerEntry("structure")
            /\ sql_code[j] = BannerEntry("data")

\* C7 witness: a finished structure+data export in which the CREATE TABLE of
\* the second table precedes the INSERTs of the first.
C7_Witness ==
    /\ pc = "done" /\ mode = "both"
    /\ \E i, j \in DOMAIN sql_code :
         /\ i < j
         /\ sql_code[i].kind = "create" /\ sql_code[i].table = 2
         /\ sql_code[j].kind = "data" /\ sql_code[j].table = 1
         /\ sql_code[j].inserts # <<>>

\* A single pass over the text: a quote becomes two quotes, a backslash two
\* backslashes, any other character itself.
RECURSIVE EscapedCharwise(_)
EscapedCharwise(s) ==
    IF s = <<>> THEN <<>>
    ELSE (CASE Head(s) = Quote -> <<Quote, Quote>>
            [] Head(s) = Backslash -> <<Backslash, Backslash>>
            [] OTHER -> <<Head(s)>>) \o EscapedCharwise(Tail(s))

\* C8: the literal of a text value, read under standard_conforming_strings =
\* on, is one string literal that denotes the value.
C8_TextRoundTrip ==
    (fpc = "back" /\ fv.type = "str") => (fback.ok /\ fback.s = fv.s)

\* C9: for a value of any other type the literal is str(value) between single
\* quotes with every quote and every backslash doubled, and it reads as one
\* string literal.
C9_OtherTypesEscaped ==
    /\ (fpc # "in" /\ fv.type = "other") =>
          fout = <<Quote>> \o EscapedCharwise(fv.s) \o <<Quote>>
    /\ (fpc = "back" /\ fv.type = "other") => fback.ok

\* C10: the literal of a text value is the value between one pair of single
\* quotes with each quote doubled, each backslash doubled and every other
\* character unchanged and in place.
C10_TextEscaping ==
    (fpc # "in" /\ fv.type = "str") =>
        fout = <<Quote>> \o EscapedCharwise(fv.s) \o <<Quote>>

\* C10 witness: the text a'b gives the literal 'a''b'.
C10_Witness ==
    /\ fpc = "out"
    /\ fv = Value("str", <<"a", Quote, "b">>, FALSE, 0)
    /\ fout = <<Quote, "a", Quote, Quote, "b", Quote>>

\* The number a decimal text denotes: an optional minus sign, then digits.
DigitValue(c) == CHOOSE d \in 0..9 : Digit(d) = c
DigitChars == {Digit(d) : d \in 0..9}
RECURSIVE DecimalValue(_)
DecimalValue(s) ==
    IF s = <<>> THEN 0
    ELSE 10 * DecimalValue(SubSeq(s, 1, Len(s) - 1)) + DigitValue(s[Len(s)])
IsDecimal(s) ==
    LET body == IF s # <<>> /\ s[1] = "-" THEN Tail(s) ELSE s
    IN body # <<>> /\ \A i \in DOMAIN body : body[i] \in DigitChars
DecimalNumber(s) == IF s[1] = "-" THEN 0 - DecimalValue(Tail(s)) ELSE DecimalValue(s)

\* C11: format_sql_value gives every value a literal; None gives NULL; a bool
\* gives TRUE or FALSE, never a numeric or any other form; an int gives the
\* decimal text of its value and a float its own text, neither with a quote.
C11_NullBoolNumber ==
    fpc # "in" =>
        /\ fout # <<>>
        /\ fv.type = "none" => fout = <<"N", "U", "L", "L">>
        /\ fv.type = "bool" =>
              /\ fout = (IF fv.b THEN <<"T", "R", "U", "E">> ELSE <<"F", "A", "L", "S", "E">>)
              /\ fout \notin {<<"1">>, <<"0">>}
        /\ fv.type = "int" =>
              /\ IsDecimal(fout)
              /\ DecimalNumber(fout) = fv.n
              /\ Quote \notin Range(fout)
        /\ fv.type = "float" => (fout = fv.s /\ Quote \notin Range(fout))

\* C11 witness: True went through the codec and left as TRUE.
C11_Witness ==
    /\ fpc = "out"
    /\ fv.type = "bool" /\ fv.b
    /\ fout = <<"T", "R", "U", "E">>

\* C16: when the connection does not work at the start of the export (the
\* first statement already fails on a lost connection), the export is
\* aborted: nothing else is executed, no document exists and none is shown.
C16_ConnectivityFailureAborts ==
    /\ pc = "failed" => (queries = <<>> /\ sql_code = <<>>)
    /\ (queries # <<>> /\ queries[1].res = "ConnLost") =>
          /\ Len(queries) = 1
          /\ sql_code = <<>>
          /\ ~Finished

\* ------------------------------------------------------------------ SpecId
\* The identifier policy: needs_quoting, escape_identifier, and the places
\* where the exporters put a table or column name into a statement.
DQuote == "\""
IdChars == {"a", "s", "A", "1", "_", "-", DQuote}
Identifiers == SeqsUpTo(IdChars, MaxIdLen)

LowerLetters == <<"a", "b", "c", "d", "e", "f", "g", "h", "i", "j", "k", "l", "m", "n", "o", "p", "q", "r", "s", "t", "u", "v", "w", "x", "y", "z">>
UpperLetters == <<"A", "B", "C", "D", "E", "F", "G", "H", "I", "J", "K", "L", "M", "N", "O", "P", "Q", "R", "S", "T", "U", "V", "W", "X", "Y", "Z">>
\* str.lower() and str.upper(), character by character
LowerChar(c) ==
    IF \E i \in DOMAIN UpperLetters : UpperLetters[i] = c
    THEN LowerLetters[CHOOSE i \in DOMAIN UpperLetters : UpperLetters[i] = c]
    ELSE c
UpperChar(c) ==
    IF \E i \in DOMAIN LowerLetters : LowerLetters[i] = c
    THEN UpperLetters[CHOOSE i \in DOMAIN LowerLetters : LowerLetters[i] = c]
    ELSE c
Lower(s) == [i \in DOMAIN s |-> LowerChar(s[i])]
Upper(s) == [i \in DOMAIN s |-> UpperChar(s[i])]

\* the characters outside the class [^a-z0-9_]
PlainChars == Range(LowerLetters) \cup DigitChars \cup {"_"}

reserved_words == {
    <<"s", "e", "l", "e", "c", "t">>,
    <<"f", "r", "o", "m">>,
    <<"w", "h", "e", "r", "e">>,
    <<"t", "a", "b", "l", "e">>,
    <<"c", "r", "e", "a", "t", "e">>,
    <<"d", "r", "o", "p">>,
    <<"a", "l", "t", "e", "r">>,
    <<"i", "n", "s", "e", "r", "t">>,
    <<"u", "p", "d", "a", "t", "e">>,
    <<"d", "e", "l", "e", "t", "e">>,
    <<"u", "s", "e", "r">>,
    <<"o", "r", "d", "e", "r">>,
    <<"g", "r", "o", "u", "p">>,
    <<"h", "a", "v", "i", "n", "g">>,
    <<"l", "i", "m", "i", "t">>,
    <<"o", "f", "f", "s", "e", "t">>,
    <<"j", "o", "i", "n">>,
    <<"i", "n", "n", "e", "r">>,
    <<"l", "e", "f", "t">>,
    <<"r", "i", "g", "h", "t">>,
    <<"f", "u", "l", "l">>,
    <<"u", "n", "i", "o", "n">>,
    <<"a", "l", "l">>,
    <<"d", "i", "s", "t", "i", "n", "c", "t">>,
    <<"a", "s">>,
    <<"o", "n">>,
    <<"a", "n", "d">>,
    <<"o", "r">>,
    <<"n", "o", "t">>,
    <<"n", "u", "l", "l">>,
    <<"t", "r", "u", "e">>,
    <<"f", "a", "l", "s", "e">>,
    <<"p", "r", "i", "m", "a", "r", "y">>,
    <<"f", "o", "r", "e", "i", "g", "n">>,
    <<"k", "e", "y">>,
    <<"u", "n", "i", "q", "u", "e">>,
    <<"c", "o", "n", "s", "t", "r", "a", "i", "n", "t">>,
    <<"i", "n", "d", "e", "x">>,
    <<"v", "i", "e", "w">>,
    <<"s", "e", "q", "u", "e", "n", "c", "e">>,
    <<"t", "r", "i", "g", "g", "e", "r">>,
    <<"f", "u", "n", "c", "t", "i", "o", "n">>}

\* Mutant of needs_quoting: without the test of the first character.
needs_quoting_NoDigitTest(id) ==
    IF id = <<>> THEN TRUE
    ELSE IF id # Lower(id) THEN TRUE
    ELSE IF \E i \in DOMAIN id : id[i] \notin PlainChars THEN TRUE
    ELSE IF Lower(id) \in reserved_words THEN TRUE
    ELSE FALSE

needs_quoting(id) ==
    IF id = <<>> THEN TRUE
    ELSE IF id # Lower(id) THEN TRUE
    ELSE IF \E i \in DOMAIN id : id[i] \notin PlainChars THEN TRUE
    ELSE IF Lower(id) \in reserved_words THEN TRUE
    ELSE IF id[1] \in DigitChars THEN TRUE
    ELSE FALSE

escape_identifier(id) ==
    IF needs_quoting(id) THEN <<DQuote>> \o id \o <<DQuote>> ELSE id

\* escaped_table and escaped_col of _build_create_table_sql
StructureEscapedTable(table_name) ==
    IF needs_quoting(table_name) THEN <<DQuote>> \o table_name \o <<DQuote>> ELSE table_name
StructureEscapedCol(col_name) ==
    IF needs_quoting(col_name) THEN <<DQuote>> \o col_name \o <<DQuote>> ELSE col_name

\* Mutant of DataEscapedTable: the name goes into the statement as it is.
DataEscapedTableRaw(table_name) == table_name

\* escaped_table and escaped_columns of get_data_sql
DataEscapedTable(table_name) ==
    IF needs_quoting(table_name) THEN <<DQuote>> \o table_name \o <<DQuote>> ELSE table_name
DataEscapedColumns(column_names) ==
    [i \in DOMAIN column_names |->
        IF needs_quoting(column_names[i])
        THEN <<DQuote>> \o column_names[i] \o <<DQuote>> ELSE column_names[i]]

\* escaped_table of get_table_row_count
RowCountEscapedTable(table_name) ==
    IF needs_quoting(table_name) THEN <<DQuote>> \o table_name \o <<DQuote>> ELSE table_name

\* A statement: its kind and the names interpolated into it.
Statement(stmt, table, cols) == [stmt |-> stmt, table |-> table, columns |-> cols]

\* The statements _build_create_table_sql writes for a table whose columns
\* have sequence defaults.
StructureStatements(table_name, column_names) ==
    LET escaped_table == StructureEscapedTable(table_name)
        escaped_cols == [i \in DOMAIN column_names |-> StructureEscapedCol(column_names[i])]
    IN {Statement("DROP TABLE", escaped_table, <<>>),
        Statement("CREATE TABLE", escaped_table, escaped_cols)}
       \cup {Statement("ALTER TABLE", escaped_table, <<escaped_cols[i]>>) :
                i \in DOMAIN escaped_cols}

\* The statements get_data_sql and _export_table_data execute and write.
DataStatements(table_name, column_names) ==
    LET escaped_table == DataEscapedTable(table_name)
        escaped_cols == DataEscapedColumns(column_names)
    IN {Statement("COUNT", escaped_table, <<>>),
        Statement("SELECT", escaped_table, escaped_cols),
        Statement("INSERT INTO", escaped_table, escaped_cols)}

RowCountStatements(table_name) ==
    {Statement("COUNT", RowCountEscapedTable(table_name), <<>>)}

InitId ==
    /\ MainOff /\ FmtOff /\ TypeOff /\ InfoOff /\ GuiOff /\ BuildOff /\ OrderOff
    /\ ipc = "in"
    /\ identifier \in Identifiers
    /\ iout = FALSE
    /\ statements = {}

\* needs_quoting(identifier)
NeedsQuoting ==
    /\ ipc = "in"
    /\ iout' = needs_quoting(identifier)
    /\ ipc' = "checked"
    /\ UNCHANGED <<identifier, statements, mainVars, fmtVars, typeVars, infoVars,
                   guiVars, buildVars, orderVars>>

\* The exporters run on a table and a column of that name.
Interpolate ==
    /\ ipc = "checked"
    /\ statements' = StructureStatements(identifier, <<identifier>>)
                        \cup DataStatements(identifier, <<identifier>>)
                        \cup RowCountStatements(identifier)
    /\ ipc' = "out"
    /\ UNCHANGED <<identifier, iout, mainVars, fmtVars, typeVars, infoVars,
                   guiVars, buildVars, orderVars>>

NextId == NeedsQuoting \/ Interpolate

SpecId == InitId /\ [][NextId]_vars

\* C12: needs_quoting answers for every name; it answers FALSE for a
\* non-empty name of lowercase letters, digits and underscores that is not
\* reserved and does not start with a digit; it answers TRUE for the empty
\* name, for a name with a character outside [a-z0-9_] (an uppercase letter
\* included), for a name that is a reserved word whatever its case, and for a
\* name that starts with a digit.
C12_NeedsQuoting ==
    ipc # "in" =>
        LET plain == identifier # <<>> /\ \A i \in DOMAIN identifier : identifier[i] \in PlainChars
            reserved == \E w \in reserved_words :
                            /\ Len(w) = Len(identifier)
                            /\ \A i \in DOMAIN w : LowerChar(identifier[i]) = w[i]
            digitFirst == identifier # <<>> /\ identifier[1] \in DigitChars
        IN /\ iout \in BOOLEAN
           /\ (plain /\ ~reserved /\ ~digitFirst) => ~iout
           /\ identifier = <<>> => iout
           /\ (\E i \in DOMAIN identifier : identifier[i] \notin PlainChars) => iout
           /\ reserved => iout
           /\ digitFirst => iout

\* C12 witness: a lowercase name that starts with a digit was found to need
\* quotes.
C12_Witness ==
    /\ ipc = "checked"
    /\ identifier = <<"1", "a">>
    /\ iout

\* C13: every statement the exporters make carries the table name and the
\* column names wrapped in double quotes exactly when needs_quoting holds of
\* the name, as escape_identifier gives them, in each of DROP TABLE, CREATE
\* TABLE, ALTER TABLE, INSERT INTO, COUNT and the paging SELECT; the structure
\* output and the data output carry the same form of the table name.
C13_NamesEscaped ==
    ipc = "out" =>
        LET form == IF iout THEN <<DQuote>> \o identifier \o <<DQuote>> ELSE identifier
        IN /\ form = escape_identifier(identifier)
           /\ {"DROP TABLE", "CREATE TABLE", "ALTER TABLE", "INSERT INTO", "COUNT", "SELECT"}
                 = {st.stmt : st \in statements}
           /\ \A st \in statements :
                 /\ st.table = form
                 /\ \A i \in DOMAIN st.columns : st.columns[i] = form
           /\ \A a \in statements : \A b \in statements : a.table = b.table

\* C13 witness: a table named with a reserved word, in quotes in the INSERT.
C13_Witness ==
    /\ ipc = "out"
    /\ identifier = <<"a", "s">>
    /\ \E st \in statements :
          /\ st.stmt = "INSERT INTO"
          /\ st.table = <<DQuote, "a", "s", DQuote>>
          /\ st.columns = <<(<<DQuote, "a", "s", DQuote>>)>>

\* ------------------------------------------------------------------ SpecType
\* _format_data_type on one row of information_schema.columns. An optional
\* integer is <<>> (None) or <<n>>.
CatalogType ==
    [character_varying |-> <<"c", "h", "a", "r", "a", "c", "t", "e", "r", " ", "v", "a", "r", "y", "i", "n", "g">>,
     character |-> <<"c", "h", "a", "r", "a", "c", "t", "e", "r">>,
     numeric |-> <<"n", "u", "m", "e", "r", "i", "c">>,
     timestamp |-> <<"t", "i", "m", "e", "s", "t", "a", "m", "p", " ", "w", "i", "t", "h", "o", "u", "t", " ", "t", "i", "m", "e", " ", "z", "o", "n", "e">>,
     timestamptz |-> <<"t", "i", "m", "e", "s", "t", "a", "m", "p", " ", "w", "i", "t", "h", " ", "t", "i", "m", "e", " ", "z", "o", "n", "e">>,
     integer |-> <<"i", "n", "t", "e", "g", "e", "r">>,
     text |-> <<"t", "e", "x", "t">>]
DataTypes == {CatalogType[k] : k \in DOMAIN CatalogType}
OptionalInts == {<<>>} \cup {<<n>> : n \in 0..MaxTypeArg}

\* Python's truth value of an Optional[int]: None and 0 are false.
Truthy(o) == o # <<>> /\ o[1] # 0

\* The returned text: a name and the numbers in its parentheses.
TypeText(name, args) == [name |-> name, args |-> args]

format_data_type(data_type, char_max_len, num_precision, num_scale) ==
    IF data_type = CatalogType.character_varying /\ Truthy(char_max_len)
    THEN TypeText(<<"V", "A", "R", "C", "H", "A", "R">>, char_max_len)
    ELSE IF data_type = CatalogType.character /\ Truthy(char_max_len)
    THEN TypeText(<<"C", "H", "A", "R">>, char_max_len)
    ELSE IF data_type = CatalogType.numeric /\ Truthy(num_precision)
    THEN (IF Truthy(num_scale)
          THEN TypeText(<<"N", "U", "M", "E", "R", "I", "C">>, num_precision \o num_scale)
          ELSE TypeText(<<"N", "U", "M", "E", "R", "I", "C">>, num_precision))
    ELSE IF data_type = CatalogType.timestamp
    THEN TypeText(<<"T", "I", "M", "E", "S", "T", "A", "M", "P">>, <<>>)
    ELSE IF data_type = CatalogType.timestamptz
    THEN TypeText(<<"T", "I", "M", "E", "S", "T", "A", "M", "P", "T", "Z">>, <<>>)
    ELSE TypeText(Upper(data_type), <<>>)

InitType ==
    /\ MainOff /\ FmtOff /\ IdOff /\ InfoOff /\ GuiOff /\ BuildOff /\ OrderOff
    /\ tpc = "in"
    /\ targs \in [data_type : DataTypes, char_max_len : OptionalInts,
                  num_precision : OptionalInts, num_scale : OptionalInts]
    /\ tout = TypeText(<<>>, <<>>)

\* col_def += self._format_data_type(data_type, char_max_len, num_precision, num_scale)
FormatDataType ==
    /\ tpc = "in"
    /\ tout' = format_data_type(targs.data_type, targs.char_max_len,
                                targs.num_precision, targs.num_scale)
    /\ tpc' = "out"
    /\ UNCHANGED <<targs, mainVars, fmtVars, idVars, infoVars, guiVars, buildVars, orderVars>>

NextType == FormatDataType

SpecType == InitType /\ [][NextType]_vars

\* C14: for every catalog type and every combination of present and absent
\* max_len, precision and scale, 0 being a present value, _format_data_type
\* returns the row of the type table: VARCHAR(n) and CHAR(n) when max_len is
\* present, NUMERIC(p,s) when precision and scale are present, NUMERIC(p) when
\* only precision is, TIMESTAMP, TIMESTAMPTZ, and otherwise the uppercased
\* catalog type.
C14_TypeTable ==
    tpc # "in" =>
        LET present(o) == o # <<>>
            t == targs.data_type
        IN tout =
            IF t = CatalogType.character_varying /\ present(targs.char_max_len)
            THEN [name |-> <<"V", "A", "R", "C", "H", "A", "R">>, args |-> targs.char_max_len]
            ELSE IF t = CatalogType.character /\ present(targs.char_max_len)
            THEN [name |-> <<"C", "H", "A", "R">>, args |-> targs.char_max_len]
            ELSE IF t = CatalogType.numeric /\ present(targs.num_precision) /\ present(targs.num_scale)
            THEN [name |-> <<"N", "U", "M", "E", "R", "I", "C">>,
                  args |-> <<targs.num_precision[1], targs.num_scale[1]>>]
            ELSE IF t = CatalogType.numeric /\ present(targs.num_precision)
            THEN [name |-> <<"N", "U", "M", "E", "R", "I", "C">>, args |-> targs.num_precision]
            ELSE IF t = CatalogType.timestamp
            THEN [name |-> <<"T", "I", "M", "E", "S", "T", "A", "M", "P">>, args |-> <<>>]
            ELSE IF t = CatalogType.timestamptz
            THEN [name |-> <<"T", "I", "M", "E", "S", "T", "A", "M", "P", "T", "Z">>, args |-> <<>>]
            ELSE [name |-> [i \in DOMAIN t |-> UpperChar(t[i])], args |-> <<>>]

\* ------------------------------------------------------------------ SpecInfo
\* get_tables_info(tables) on a DatabaseConnection in any state: never
\* connected, connected, or connected and since lost. The tables asked for
\* need not exist, and one may be asked for twice.
RequestedLists == SeqsUpTo(Tables, NumTables)

\* Mutant of RowCountCatches: the handler lets the error of the rollback on
\* a closed connection through.
RowCountCatchesStatementErrors(e) == e # "ConnClosed"

\* get_table_row_count: "except Exception: return 0"
RowCountCatches(e) == TRUE

\* what get_table_row_count returns
RowCount(o, t) == IF o = "ok" THEN Len(dbRows[t]) ELSE 0

InitInfo ==
    /\ FmtOff /\ IdOff /\ TypeOff /\ GuiOff /\ BuildOff /\ OrderOff
    /\ dbTables \in SUBSET Tables
    /\ dbCols \in [Tables -> InitColLists]
    /\ dbRows \in [Tables -> InitialRows]
    /\ \A t \in Tables \ dbTables : dbRows[t] = <<>>
    /\ SumRows(dbRows, Tables) <= MaxRows
    /\ envOps = 0
    /\ rowsTouched = {}
    /\ colsTouched = {}
    /\ connection \in {"None", "open"}
    /\ connAlive \in BOOLEAN
    /\ connection = "None" => ~connAlive
    /\ tx = "idle"
    /\ pc = "off"
    /\ phase = "start"
    /\ step = "-"
    /\ mode = "both"
    /\ batch_size = 1
    /\ tables = <<>>
    /\ idx = 0
    /\ sql_code = <<>>
    /\ total_rows = 0
    /\ escaped_columns = <<>>
    /\ offset = 0
    /\ sql = <<>>
    /\ columns = <<>>
    /\ queries = <<>>
    /\ requested = [b \in {"structure", "data"} |-> <<>>]
    /\ npc = "loop"
    /\ ntables \in RequestedLists
    /\ nidx = 1
    /\ tables_info = [t \in Tables |-> <<>>]

\* One turn of the loop of get_tables_info: get_table_row_count(table), then
\* tables_info[table] = {'rows': row_count, ...}.
GetTableRowCount ==
    /\ npc = "loop" /\ nidx <= Len(ntables)
    /\ LET t == ntables[nidx]
       IN \E o \in Outcomes(t \in dbTables) :
            /\ queries' = IF o = "NoActiveConnection" THEN queries
                          ELSE Append(queries, Query("count", t, 0, o, RowCount(o, t)))
            /\ connAlive' = (connAlive /\ (o = "ok" \/ ~RollbackRaises(o)))
            /\ tx' = IF o = "ok" THEN "active" ELSE TxAfterException(o)
            /\ IF o = "ok" \/ RowCountCatches(HandlerMessage(o))
               THEN /\ tables_info' = [tables_info EXCEPT ![t] = <<RowCount(o, t)>>]
                    /\ nidx' = nidx + 1
                    /\ npc' = "loop"
               ELSE /\ npc' = "raised"
                    /\ UNCHANGED <<tables_info, nidx>>
    /\ UNCHANGED <<dbVars, connection, pc, step, loopVars, sql_code, dataLocals,
                   columns, requested, ntables, fmtVars, idVars, typeVars, guiVars,
                   buildVars, orderVars>>

\* return tables_info
ReturnTablesInfo ==
    /\ npc = "loop" /\ nidx > Len(ntables)
    /\ npc' = "done"
    /\ UNCHANGED <<mainVars, ntables, nidx, tables_info, fmtVars, idVars, typeVars,
                   guiVars, buildVars, orderVars>>

NextInfo == GetTableRowCount \/ ReturnTablesInfo

SpecInfo == InitInfo /\ [][NextInfo]_vars

\* C15: get_table_row_count never raises: each table the loop has passed has
\* an entry, holding the table's row count when its count query succeeded and
\* 0 when it failed for whatever reason (no connection, missing table, query
\* error); when get_tables_info returns, the entries are exactly the tables
\* asked for.
C15_RowCountNeverRaises ==
    npc # "off" =>
        LET passed == 1..(nidx - 1)
            last(t) == CHOOSE i \in passed :
                          ntables[i] = t /\ \A j \in passed : ntables[j] = t => j <= i
        IN /\ npc \in {"loop", "done"}
           /\ HasCursor => Len(queries) = nidx - 1
           /\ \A t \in Tables :
                IF \E i \in passed : ntables[i] = t
                THEN tables_info[t] =
                        <<IF HasCursor /\ queries[last(t)].res = "ok"
                          THEN Len(dbRows[t]) ELSE 0>>
                ELSE tables_info[t] = <<>>
           /\ npc = "done" => {t \in Tables : tables_info[t] # <<>>} = Range(ntables)

\* C15 witness: get_tables_info returned after one count failed on a lost
\* connection and so did the next on the closed one; both tables have an
\* entry.
C15_Witness ==
    /\ npc = "done"
    /\ Len(ntables) = 2 /\ ntables[1] # ntables[2]
    /\ Len(queries) = 2
    /\ queries[1].res = "ConnLost"
    /\ queries[2].res = "ConnClosed"
    /\ \A t \in Tables : tables_info[t] = <<0>>

\* ------------------------------------------------------------------ SpecGui
\* The export buttons: each press starts a daemon thread whose worker makes
\* its own DatabaseConnection; nothing keeps a second press from starting a
\* second worker while the first one runs.

\* Mutant of NewDatabaseConnection: every worker uses the one object kept in
\* self.db_connection.
AppDatabaseConnection(made) == 1

\* "with DatabaseConnection(**params) as db_conn": a new object, with the
\* connection and the cursor that its connect() opens.
NewDatabaseConnection(made) == made + 1

\* the statements a worker has executed so far
Executed(w) == {e \in wlog : e.thread = w}

InitGui ==
    /\ MainOff /\ FmtOff /\ IdOff /\ TypeOff /\ InfoOff /\ BuildOff /\ OrderOff
    /\ wpc = [w \in Workers |-> "idle"]
    /\ db_conn = [w \in Workers |-> 0]
    /\ instances = 0
    /\ wlog = {}
    /\ sql_text = <<>>
    /\ current_sql_code = [text |-> <<>>, worker |-> 0]
    /\ saved = {}

\* The texts of the application, as the lines they are made of.
WaitText == <<"Generating structure and data... Please wait...">>
Document == <<"-- PostgreSQL export", "-- TABLE STRUCTURE", "-- TABLE DATA">>

\* save_sql_file: the two tests that make it refuse
NothingToSave == current_sql_code.text = <<>>
SeesGeneration == "Por favor espere..." \in Range(current_sql_code.text)

\* a worker thread is between its start and the display of its result
Generating(w) == wpc[w] \in {"started", "running", "done"}

\* generate_structure / generate_data / generate_both: the widget shows the
\* wait text, then Thread(target=worker).start()
Press(w) ==
    /\ wpc[w] = "idle"
    /\ wpc' = [wpc EXCEPT ![w] = "started"]
    /\ sql_text' = WaitText
    /\ UNCHANGED <<db_conn, instances, wlog, current_sql_code, saved, mainVars,
                   fmtVars, idVars, typeVars, infoVars, buildVars, orderVars>>

\* worker: DatabaseConnection(**params).__enter__(), then the test of
\* db_conn.connection; a failed connect leaves the "with" block by the raise
\* and the handler empties the widget.
Enter(w) ==
    /\ wpc[w] = "started"
    /\ db_conn' = [db_conn EXCEPT ![w] = NewDatabaseConnection(instances)]
    /\ instances' = instances + 1
    /\ \E ok \in BOOLEAN :
         /\ wpc' = [wpc EXCEPT ![w] = IF ok THEN "running" ELSE "failed"]
         /\ sql_text' = IF ok THEN sql_text ELSE <<>>
    /\ UNCHANGED <<wlog, current_sql_code, saved, mainVars, fmtVars, idVars, typeVars,
                   infoVars, buildVars, orderVars>>

\* worker: one statement of the exporters, on the cursor of its db_conn
Execute(w) ==
    /\ wpc[w] = "running"
    /\ Cardinality(Executed(w)) < MaxStatements
    /\ wlog' = wlog \cup {[thread |-> w, conn |-> db_conn[w],
                          n |-> Cardinality(Executed(w)) + 1]}
    /\ UNCHANGED <<wpc, db_conn, instances, sql_text, current_sql_code, saved,
                   mainVars, fmtVars, idVars, typeVars, infoVars, buildVars, orderVars>>

\* worker: the end of the "with" block, __exit__ disconnects; the display of
\* the document is scheduled
Exit(w) ==
    /\ wpc[w] = "running"
    /\ wpc' = [wpc EXCEPT ![w] = "done"]
    /\ UNCHANGED <<db_conn, instances, wlog, sql_text, current_sql_code, saved,
                   mainVars, fmtVars, idVars, typeVars, infoVars, buildVars, orderVars>>

\* show_sql_in_text_widget(sql_code), on the thread of the window
ShowSql(w) ==
    /\ wpc[w] = "done"
    /\ wpc' = [wpc EXCEPT ![w] = "shown"]
    /\ current_sql_code' = [text |-> Document, worker |-> w]
    /\ sql_text' = Document
    /\ UNCHANGED <<db_conn, instances, wlog, saved, mainVars, fmtVars, idVars,
                   typeVars, infoVars, buildVars, orderVars>>

\* save_sql_file: the two warnings, then the file dialog (which the user may
\* cancel) and the write of self.current_sql_code
SaveSqlFile ==
    /\ ~NothingToSave
    /\ ~SeesGeneration
    /\ \E file_path \in BOOLEAN :
         saved' = IF file_path
                  THEN saved \cup {[worker |-> current_sql_code.worker,
                                    generating |-> {w \in Workers : Generating(w)}]}
                  ELSE saved
    /\ UNCHANGED <<wpc, db_conn, instances, wlog, sql_text, current_sql_code,
                   mainVars, fmtVars, idVars, typeVars, infoVars, buildVars, orderVars>>

NextGui ==
    \/ \E w \in Workers : Press(w)
    \/ \E w \in Workers : Enter(w)
    \/ \E w \in Workers : Execute(w)
    \/ \E w \in Workers : Exit(w)
    \/ \E w \in Workers : ShowSql(w)
    \/ SaveSqlFile

SpecGui == InitGui /\ [][NextGui]_vars

\* C17: no two exports that are in flight at the same time use the same
\* DatabaseConnection object, and no two threads ever execute statements on
\* the same connection.
C17_OneExportPerConnection ==
    /\ \A v \in Workers : \A w \in Workers :
          (v # w /\ wpc[v] = "running" /\ wpc[w] = "running") => db_conn[v] # db_conn[w]
    /\ \A d \in wlog : \A e \in wlog : d.conn = e.conn => d.thread = e.thread

\* C17 witness: the button was pressed again before the first export
\* finished; both workers are inside their "with" block and both have
\* executed statements.
C17_Witness ==
    /\ wpc[1] = "running" /\ wpc[2] = "running"
    /\ Executed(1) # {} /\ Executed(2) # {}
    /\ Cardinality(Executed(1)) < MaxStatements

\* ------------------------------------------------------------------ SpecBuild
\* get_structure_sql from the two catalog results on: _build_create_table_sql
\* inside "try ... except Exception". A default expression is text (<<>> is
\* None); the returned text is a sequence of lines.
BuildTable == <<"o", "r", "d", "e", "r">>
ColumnNames == <<<<"i", "d">>, <<"u", "s", "e", "r">>, <<"n">>>>
NextvalText == <<"n", "e", "x", "t", "v", "a", "l">>
Defaults ==
    {<<>>,
     <<"0">>,
     <<"n", "e", "x", "t", "v", "a", "l", "(", "'", "s", "'", ":", ":", "r", "e", "g", "c", "l", "a", "s", "s", ")">>,
     <<"'", "n", "e", "x", "t", "v", "a", "l", "'", ":", ":", "t", "e", "x", "t">>,
     <<"m", "y", "_", "n", "e", "x", "t", "v", "a", "l", "(", ")">>}

\* one row of the columns query, at ordinal position i
ColumnRow(i, nullable, default) ==
    [col_name |-> ColumnNames[i], data_type |-> CatalogType.integer, char_max_len |-> <<>>,
     is_nullable |-> nullable, default_val |-> default,
     num_precision |-> <<>>, num_scale |-> <<>>]
ColumnLists ==
    UNION {{[i \in 1..n |-> ColumnRow(i, nl[i], df[i])] :
               nl \in [1..n -> {"YES", "NO"}], df \in [1..n -> Defaults]} :
           n \in 1..MaxCols}

\* the rows of the constraints query come in ORDER BY contype order
ConTypes == <<"c", "f", "p", "u", "x">>
ConstraintRow(k) == [con_name |-> k, con_type |-> ConTypes[k], con_def |-> k]
ConstraintLists ==
    {SortedSeq(S) : S \in {T \in SUBSET DOMAIN ConTypes : Cardinality(T) <= MaxCons}}

\* 'nextval' in str(default_val)
Contains(s, sub) ==
    \E i \in 1..(Len(s) - Len(sub) + 1) : SubSeq(s, i, i + Len(sub) - 1) = sub

\* str.split(sep) for a separator of one character
RECURSIVE Split(_, _)
Split(s, sep) ==
    IF sep \notin Range(s) THEN <<s>>
    ELSE LET i == CHOOSE k \in DOMAIN s : s[k] = sep /\ \A j \in 1..(k - 1) : s[j] # sep
         IN <<SubSeq(s, 1, i - 1)>> \o Split(SubSeq(s, i + 1, Len(s)), sep)

\* "if default_val:" and "if 'nextval' in str(default_val):"
HasDefault(default_val) == default_val # <<>>
TreatedAsSequence(default_val) ==
    HasDefault(default_val) /\ Contains(default_val, NextvalText)

\* default_val.split("'")[1] raises IndexError when the split has one part
ExtractionRaises(default_val) == Len(Split(default_val, Quote)) < 2
SeqName(default_val) == Split(Split(default_val, Quote)[2], Quote)[1]

\* A line of the returned text.
Line(kind, col, type, notnull, default, seq, con) ==
    [kind |-> kind, table |-> StructureEscapedTable(BuildTable), col |-> col,
     type |-> type, notnull |-> notnull, default |-> default, seq |-> seq, con |-> con,
     comma |-> FALSE]
PlainLine(kind) == Line(kind, <<>>, TypeText(<<>>, <<>>), FALSE, <<>>, <<>>, 0)

\* col_def of one column
ColumnDef(c) ==
    Line("column", StructureEscapedCol(c.col_name),
         format_data_type(c.data_type, c.char_max_len, c.num_precision, c.num_scale),
         c.is_nullable = "NO",
         IF HasDefault(c.default_val) /\ ~TreatedAsSequence(c.default_val)
         THEN c.default_val ELSE <<>>,
         <<>>, 0)

\* Mutant of ConstraintDefs: the rows of every kind are kept.
RECURSIVE ConstraintDefsAllKinds(_)
ConstraintDefsAllKinds(cons) ==
    IF cons = <<>> THEN <<>>
    ELSE <<Line("constraint", <<>>, TypeText(<<>>, <<>>), FALSE, <<>>, <<>>, Head(cons).con_name)>>
            \o ConstraintDefsAllKinds(Tail(cons))

\* constraint_definitions: the rows of the four kinds
RECURSIVE ConstraintDefs(_)
ConstraintDefs(cons) ==
    IF cons = <<>> THEN <<>>
    ELSE (IF Head(cons).con_type \in {"p", "u", "c", "f"}
          THEN <<Line("constraint", <<>>, TypeText(<<>>, <<>>), FALSE, <<>>, <<>>, Head(cons).con_name)>>
          ELSE <<>>) \o ConstraintDefs(Tail(cons))

\* the lines of the loop over sequences_info
RECURSIVE SequenceLines(_)
SequenceLines(cols) ==
    IF cols = <<>> THEN <<>>
    ELSE (IF TreatedAsSequence(Head(cols).default_val)
          THEN LET escaped_col == StructureEscapedCol(Head(cols).col_name)
                   seq_name == SeqName(Head(cols).default_val)
               IN <<Line("sequence comment", escaped_col, TypeText(<<>>, <<>>), FALSE, <<>>, <<>>, 0),
                    Line("create sequence", <<>>, TypeText(<<>>, <<>>), FALSE, <<>>, seq_name, 0),
                    Line("alter", escaped_col, TypeText(<<>>, <<>>), FALSE, <<>>, seq_name, 0)>>
          ELSE <<>>) \o SequenceLines(Tail(cols))

\* The body of CREATE TABLE: ",\n".join(column_definitions), and when a
\* constraint is kept, ",\n" and ",\n".join(constraint_definitions). A line's
\* comma field says that a comma follows it.
JoinedBody(column_definitions, constraint_definitions) ==
    LET join(defs) == [i \in DOMAIN defs |-> [defs[i] EXCEPT !.comma = i < Len(defs)]]
        cols == join(column_definitions)
    IN IF constraint_definitions # <<>>
       THEN [i \in DOMAIN cols |-> [cols[i] EXCEPT !.comma = TRUE]]
               \o join(constraint_definitions)
       ELSE cols

\* Mutant of AssembleSql: the sequences come before the closing of CREATE
\* TABLE.
AssembleSqlSequencesFirst(column_definitions, constraint_definitions, sequence_lines) ==
    <<PlainLine("comment"), PlainLine("drop"), PlainLine("create")>>
        \o JoinedBody(column_definitions, constraint_definitions)
        \o sequence_lines \o <<PlainLine("close")>>

\* the order in which _build_create_table_sql appends to sql
AssembleSql(column_definitions, constraint_definitions, sequence_lines) ==
    <<PlainLine("comment"), PlainLine("drop"), PlainLine("create")>>
        \o JoinedBody(column_definitions, constraint_definitions)
        \o <<PlainLine("close")>> \o sequence_lines

\* _build_create_table_sql: raises in the column loop, or returns sql
BuildRaises(cols) ==
    \E i \in DOMAIN cols :
        TreatedAsSequence(cols[i].default_val) /\ ExtractionRaises(cols[i].default_val)
build_create_table_sql(cols, cons) ==
    AssembleSql([i \in DOMAIN cols |-> ColumnDef(cols[i])], ConstraintDefs(cons),
                SequenceLines(cols))

InitBuild ==
    /\ MainOff /\ FmtOff /\ IdOff /\ TypeOff /\ InfoOff /\ GuiOff /\ OrderOff
    /\ bpc = "in"
    /\ bcolumns \in ColumnLists
    /\ bconstraints \in {[i \in DOMAIN ks |-> ConstraintRow(ks[i])] : ks \in ConstraintLists}
    /\ bout = [result |-> "none", lines |-> <<>>]

\* get_structure_sql: "return self._build_create_table_sql(...)" and the
\* handler "except Exception as e: return -- Error obtaining structure ..."
BuildCreateTable ==
    /\ bpc = "in"
    /\ bout' = IF BuildRaises(bcolumns)
               THEN [result |-> "error", lines |-> <<>>]
               ELSE [result |-> "sql",
                     lines |-> build_create_table_sql(bcolumns, bconstraints)]
    /\ bpc' = "out"
    /\ UNCHANGED <<bcolumns, bconstraints, mainVars, fmtVars, idVars, typeVars,
                   infoVars, guiVars, orderVars>>

NextBuild == BuildCreateTable

SpecBuild == InitBuild /\ [][NextBuild]_vars

\* the lines of a kind in the returned text, and the columns' lines
LinesOf(kind) == {i \in DOMAIN bout.lines : bout.lines[i].kind = kind}
OnlyLine(kind) == CHOOSE i \in LinesOf(kind) : TRUE
ColumnLine(n) == bout.lines[OnlyLine("create") + n]
QuotedForm(name) == IF needs_quoting(name) THEN <<DQuote>> \o name \o <<DQuote>> ELSE name
ColumnOf(col) == CHOOSE n \in DOMAIN bcolumns : QuotedForm(bcolumns[n].col_name) = col
Retained == {k \in DOMAIN bconstraints : bconstraints[k].con_type \in {"p", "u", "c", "f"}}

\* C18: the text _build_create_table_sql returns has, in this order, the
\* DROP TABLE guard, the CREATE TABLE opening, one line per column in catalog
\* order, the lines of the retained constraints, the closing line, and only
\* then, per sequence binding in column order, CREATE SEQUENCE with the ALTER
\* TABLE of the same column and sequence as the very next line.
C18_EmitOrder ==
    (bpc = "out" /\ bout.result = "sql") =>
        LET L == bout.lines
        IN /\ \A k \in {"drop", "create", "close"} : Cardinality(LinesOf(k)) = 1
           /\ OnlyLine("drop") < OnlyLine("create")
           /\ Cardinality(LinesOf("column")) = Len(bcolumns)
           /\ \A n \in DOMAIN bcolumns :
                 /\ ColumnLine(n).kind = "column"
                 /\ ColumnLine(n).col = QuotedForm(bcolumns[n].col_name)
           /\ \A i \in LinesOf("column") : \A k \in LinesOf("constraint") : i < k
           /\ \A i \in LinesOf("column") \cup LinesOf("constraint") : i < OnlyLine("close")
           /\ {L[k].con : k \in LinesOf("constraint")}
                 = {bconstraints[k].con_name : k \in Retained}
           /\ Cardinality(LinesOf("constraint")) = Cardinality(Retained)
           /\ \A i \in LinesOf("constraint") : \A j \in LinesOf("constraint") :
                 i < j => L[i].con < L[j].con
           /\ \A s \in LinesOf("create sequence") \cup LinesOf("alter") : OnlyLine("close") < s
           /\ \A s \in LinesOf("create sequence") :
                 /\ s + 1 \in LinesOf("alter")
                 /\ L[s + 1].seq = L[s].seq
           /\ \A a \in LinesOf("alter") : a - 1 \in LinesOf("create sequence")
           /\ \A a \in LinesOf("alter") : \A b \in LinesOf("alter") :
                 a < b => ColumnOf(L[a].col) < ColumnOf(L[b].col)

\* C18 witness: a table of two serial columns with one retained and one
\* dropped constraint was built.
C18_Witness ==
    /\ bpc = "out" /\ bout.result = "sql"
    /\ Len(bcolumns) = 2
    /\ Cardinality(LinesOf("alter")) = 2
    /\ Len(bconstraints) = 2
    /\ Cardinality(LinesOf("constraint")) = 1

\* a default that is a call of nextval
IsNextvalCall(d) ==
    /\ Len(d) > Len(NextvalText)
    /\ SubSeq(d, 1, Len(NextvalText) + 1) = NextvalText \o <<"(">>

\* C19: a column line has an inline DEFAULT exactly when the column has a
\* default that is not a nextval(...) call, and then it is that default; a
\* nextval(...) default gives exactly one sequence binding, any other column
\* gives none, so that a default which only contains the text nextval stays
\* inline.
C19_InlineDefaults ==
    (bpc = "out" /\ bout.result = "sql") =>
        \A n \in DOMAIN bcolumns :
            LET d == bcolumns[n].default_val
                inline == d # <<>> /\ ~IsNextvalCall(d)
                bindings == {a \in LinesOf("alter") :
                                bout.lines[a].col = QuotedForm(bcolumns[n].col_name)}
            IN /\ (ColumnLine(n).default # <<>>) <=> inline
               /\ inline => ColumnLine(n).default = d
               /\ Cardinality(bindings) = IF IsNextvalCall(d) THEN 1 ELSE 0

\* the text between the first and the second single quote
BetweenQuotes(d) ==
    LET quotes == {i \in DOMAIN d : d[i] = Quote}
        first == CHOOSE i \in quotes : \A j \in quotes : i <= j
        second == CHOOSE i \in quotes \ {first} : \A j \in quotes \ {first} : i <= j
    IN SubSeq(d, first + 1, second - 1)

\* C20: whenever a column's default is treated as a sequence reference, the
\* table still gets its CREATE TABLE (not an error comment), and the CREATE
\* SEQUENCE and the SET DEFAULT nextval of that column name the text between
\* the first and the second single quote of the default.
C20_SequenceNameExtracted ==
    (bpc = "out" /\ \E n \in DOMAIN bcolumns : TreatedAsSequence(bcolumns[n].default_val)) =>
        /\ bout.result = "sql"
        /\ \A n \in DOMAIN bcolumns :
              TreatedAsSequence(bcolumns[n].default_val) =>
                 \E s \in LinesOf("create sequence") :
                    /\ bout.lines[s].seq = BetweenQuotes(bcolumns[n].default_val)
                    /\ bout.lines[s + 1].kind = "alter"
                    /\ bout.lines[s + 1].col = QuotedForm(bcolumns[n].col_name)
                    /\ bout.lines[s + 1].seq = BetweenQuotes(bcolumns[n].default_val)

\* C21: the body of CREATE TABLE has one CONSTRAINT line for each constraint
\* row of kind p, u, c or f, in the order of the rows, and none for a row of
\* another kind; when no row is kept the last column line is directly
\* followed by the closing line; a comma follows every line of the body but
\* the last, never the last.
C21_ConstraintLines ==
    (bpc = "out" /\ bout.result = "sql") =>
        LET L == bout.lines
            kept == SelectSeq(bconstraints, LAMBDA r : r.con_type \in {"p", "u", "c", "f"})
            lines == SelectSeq(L, LAMBDA l : l.kind = "constraint")
            close == OnlyLine("close")
        IN /\ Len(lines) = Len(kept)
           /\ \A i \in DOMAIN lines : lines[i].con = kept[i].con_name
           /\ kept = <<>> => L[close - 1] = ColumnLine(Len(bcolumns))
           /\ L[close - 1].kind \in {"column", "constraint"}
           /\ ~L[close - 1].comma
           /\ \A i \in (OnlyLine("create") + 1)..(close - 2) : L[i].comma

\* C21 witness: a table of two columns whose constraints are one check and
\* one exclusion constraint: one CONSTRAINT line, a comma after the last
\* column line.
C21_Witness ==
    /\ bpc = "out" /\ bout.result = "sql"
    /\ Len(bcolumns) = 2
    /\ Len(bconstraints) = 2
    /\ bconstraints[1].con_type = "c" /\ bconstraints[2].con_type = "x"
    /\ ColumnLine(2).comma
    /\ bout.lines[OnlyLine("close") - 1].kind = "constraint"

\* ------------------------------------------------------------------ SpecLive
\* The worker thread is scheduled: a page query that can be executed is
\* executed.
SpecLive == Spec /\ WF_vars(DataPage)

\* the page queries of the table whose loop is running: the statements after
\* the column-name query
PagesNow ==
    LET other == {i \in DOMAIN queries : queries[i].q # "page"}
        last == CHOOSE i \in other : \A j \in other : j <= i
    IN SubSeq(queries, last + 1, Len(queries))
PagesOf(t) == SelectSeq(queries, LAMBDA r : r.q = "page" /\ r.table = t)

\* while the loop runs, the pages issued are those at offsets 0, B, 2B, ...,
\* all below total_rows and fewer than ceil(total_rows / B); a loop that
\* ended normally issued exactly ceil(total_rows / B)
PagingBounded ==
    /\ (pc = "table" /\ phase = "data" /\ step = "page") =>
          /\ total_rows >= 1 /\ batch_size >= 1
          /\ offset = Len(PagesNow) * batch_size
          /\ Len(PagesNow) < Ceil(total_rows, batch_size)
          /\ \A k \in DOMAIN PagesNow :
                /\ PagesNow[k].offset = (k - 1) * batch_size
                /\ PagesNow[k].offset < total_rows
    /\ \A j \in DOMAIN sql_code :
          sql_code[j].kind = "data" =>
             LET pages == PagesOf(sql_code[j].table)
             IN /\ Len(pages) = Ceil(sql_code[j].count, batch_size)
                /\ \A k \in DOMAIN pages :
                      /\ pages[k].offset = (k - 1) * batch_size
                      /\ pages[k].offset < sql_code[j].count

\* C22: for total_rows >= 1 and batch_size >= 1 the paging loop issues its
\* page queries at offsets 0, B, 2B, ... below total_rows, exactly
\* ceil(total_rows / B) of them when every one returns, whatever number of
\* rows they return, and the loop always comes to an end.
C22_PagingTerminates ==
    /\ []PagingBounded
    /\ (step = "page") ~> (step # "page")

\* C22 witness: a count of three in batches of one; another session deleted
\* rows, a page came back empty, and the loop still made three queries.
C22_Witness ==
    \E j \in DOMAIN sql_code :
        /\ sql_code[j].kind = "data" /\ sql_code[j].count = 3 /\ batch_size = 1
        /\ Len(PagesOf(sql_code[j].table)) = 3
        /\ \E k \in 1..3 : PagesOf(sql_code[j].table)[k].n = 0

\* the statements are, in order, those of the pages that returned rows, each
\* with the rows of its page
InsertsMatchPages(inserts, pages) ==
    LET nonempty == SelectSeq(pages, LAMBDA r : r.n > 0)
    IN /\ Len(inserts) = Len(nonempty)
       /\ \A i \in DOMAIN inserts :
             /\ Len(inserts[i].rows) = nonempty[i].n
             /\ Len(inserts[i].rows) >= 1
             /\ Len(inserts[i].rows) <= batch_size

\* C23: at every moment of a data export, with other sessions deleting and
\* inserting rows between the queries, each INSERT statement has between one
\* and batch_size row tuples and is the statement of exactly one page, and a
\* page without rows has no statement.
C23_OneInsertPerPage ==
    /\ (pc = "table" /\ phase = "data" /\ step = "page") => InsertsMatchPages(sql, PagesNow)
    /\ \A j \in DOMAIN sql_code :
          sql_code[j].kind = "data" =>
             InsertsMatchPages(sql_code[j].inserts, PagesOf(sql_code[j].table))

\* C23 witness: three rows were counted, another session deleted one, and
\* with batches of two the first page gave an INSERT of two rows and the
\* second page, empty, gave none.
C23_Witness ==
    \E j \in DOMAIN sql_code :
        /\ sql_code[j].kind = "data" /\ sql_code[j].count = 3 /\ batch_size = 2
        /\ sql_code[j].table \in rowsTouched
        /\ Len(PagesOf(sql_code[j].table)) = 2
        /\ Len(sql_code[j].inserts) = 1
        /\ Len(sql_code[j].inserts[1].rows) = 2

\* the row tuples of a table's INSERT statements, in document order
RECURSIVE AllTuples(_)
AllTuples(inserts) ==
    IF inserts = <<>> THEN <<>> ELSE Head(inserts).rows \o AllTuples(Tail(inserts))
Occurrences(s, x) == Cardinality({i \in DOMAIN s : s[i] = x})

\* C24: for a table that no other session modified during the export (the
\* scan meeting the rows in the same order at every page), each row of the
\* table occurs exactly once in the tuples of the table's INSERT statements
\* and no other tuple does, and the count in the header of the table's data
\* is the number of tuples.
C24_RowsExportedOnce ==
    \A j \in DOMAIN sql_code :
        LET e == sql_code[j]
            tuples == AllTuples(e.inserts)
        IN (e.kind = "data" /\ e.table \notin rowsTouched) =>
              /\ \A r \in RowIds : Occurrences(tuples, r) = Occurrences(dbRows[e.table], r)
              /\ e.count = Len(tuples)

\* C24 witness: a table of three rows exported in batches of two; the tuples
\* of its two statements are its three rows.
C24_Witness ==
    \E j \in DOMAIN sql_code :
        /\ sql_code[j].kind = "data" /\ sql_code[j].table \notin rowsTouched
        /\ batch_size = 2
        /\ Len(dbRows[sql_code[j].table]) = 3
        /\ AllTuples(sql_code[j].inserts) = dbRows[sql_code[j].table]

\* C25: when a statement of a table's export has failed, the transaction is
\* rolled back before the table's error comment joins the document: on a
\* connection that still answers no statement is ever refused because the
\* transaction is aborted, and a later statement that finds the connection
\* closed follows a statement that lost the connection, not one that merely
\* failed.
C25_RollbackBeforeComment ==
    /\ connAlive => tx # "aborted"
    /\ \A i \in DOMAIN queries :
          /\ queries[i].res # "InFailedTransaction"
          /\ queries[i].res = "ConnClosed" =>
                \E j \in 1..(i - 1) : queries[j].res = "ConnLost"

\* C25 witness: a statement of the first table was cancelled, its error
\* comment is in the document, and the first statement of the second table
\* ran and succeeded.
C25_Witness ==
    \E i \in DOMAIN queries : \E j \in DOMAIN sql_code :
        /\ i < Len(queries)
        /\ queries[i].res = "QueryCanceled" /\ queries[i].table = 1
        /\ sql_code[j] = ErrorEntry(BlockOf(queries[i].q), 1, "QueryCanceled")
        /\ queries[i + 1].res = "ok" /\ queries[i + 1].table = 2
        /\ queries[i + 1].q \in {"columns", "count"}

\* C27: when a structure+data export is over, the tables with an entry in
\* the structure block are, in order, the tables with an entry in the data
\* block.
C27_SameTablesInBothBlocks ==
    (Finished /\ mode = "both") =>
        TablesOf(TableEntries("structure")) = TablesOf(TableEntries("data"))

\* How SQL reads a delimited identifier from position i on (the opening
\* quote is before i): two double quotes are one quote of the name, a single
\* one ends the identifier. The result is the name and the position of the
\* closing quote, 0 when there is none.
RECURSIVE ScanDelimited(_, _, _)
ScanDelimited(text, i, name) ==
    IF i > Len(text) THEN [end |-> 0, name |-> name]
    ELSE IF text[i] # DQuote THEN ScanDelimited(text, i + 1, Append(name, text[i]))
    ELSE IF i < Len(text) /\ text[i + 1] = DQuote
    THEN ScanDelimited(text, i + 2, Append(name, DQuote))
    ELSE [end |-> i, name |-> name]

\* The name a text denotes when it is one whole identifier: a delimited
\* identifier that ends at the end of the text, or a bare word that is not a
\* key word.
ReadIdentifier(text) ==
    IF text # <<>> /\ text[1] = DQuote
    THEN LET r == ScanDelimited(text, 2, <<>>)
         IN [ok |-> r.end = Len(text) /\ r.name # <<>>, name |-> r.name]
    ELSE [ok |-> /\ text # <<>>
                 /\ \A i \in DOMAIN text : text[i] \in PlainChars
                 /\ text[1] \notin DigitChars
                 /\ text \notin reserved_words,
          name |-> text]

\* C29: whatever characters a name has, a double quote included, the text
\* that stands for it in every statement is one well-formed identifier and
\* denotes that name.
C29_IdentifierDenotesName ==
    (ipc = "out" /\ identifier # <<>>) =>
        \A st \in statements :
            /\ ReadIdentifier(st.table) = [ok |-> TRUE, name |-> identifier]
            /\ \A i \in DOMAIN st.columns :
                  ReadIdentifier(st.columns[i]) = [ok |-> TRUE, name |-> identifier]

\* C30: save_sql_file writes no file between the start of a generate_*
\* operation and the display of its result; in particular it does not write
\* the document of an earlier export while a later one is being generated.
C30_NoSaveWhileGenerating ==
    \A f \in saved : f.generating = {}

\* ------------------------------------------------------------------ SpecBatch
\* export_all_data on tables that all have rows, on a connection that works,
\* with any integer batch_size: the spin box of the window accepts typed
\* text, and get_data_sql takes an int. The statements are not logged, so
\* that a turn of the loop that changes nothing is a step that changes
\* nothing.
BatchInputs == (0 - 1)..MaxBatch

InitBatch ==
    /\ FmtOff /\ IdOff /\ TypeOff /\ InfoOff /\ GuiOff /\ BuildOff /\ OrderOff
    /\ dbTables = Tables
    /\ dbCols \in [Tables -> InitColLists]
    /\ dbRows \in [Tables -> InitialRows \ {<<>>}]
    /\ envOps = 0
    /\ rowsTouched = {}
    /\ colsTouched = {}
    /\ connection = "open"
    /\ connAlive = TRUE
    /\ tx = "idle"
    /\ pc = "table"
    /\ phase = "data"
    /\ step = "count"
    /\ mode = "data"
    /\ batch_size \in BatchInputs
    /\ tables = SortedSeq(Tables)
    /\ idx = 1
    /\ sql_code = <<HeaderEntry, BannerEntry("data")>>
    /\ total_rows = 0
    /\ escaped_columns = <<>>
    /\ offset = 0
    /\ sql = <<>>
    /\ columns = <<>>
    /\ queries = <<>>
    /\ requested = [b \in {"structure", "data"} |-> IF b = "data" THEN SortedSeq(Tables) ELSE <<>>]

\* get_data_sql: the count, the column names, and offset = 0
BatchCount ==
    /\ pc = "table" /\ step = "count"
    /\ total_rows' = Len(dbRows[tables[idx]])
    /\ escaped_columns' = dbCols[tables[idx]]
    /\ offset' = 0
    /\ sql' = <<>>
    /\ step' = "page"
    /\ UNCHANGED <<dbVars, connVars, pc, loopVars, sql_code, columns, queries,
                   requested, pureVars>>

\* one turn of "while offset < total_rows": the page query, which the server
\* refuses when LIMIT is negative, the INSERT of a page with rows, and
\* offset += batch_size
BatchPage ==
    /\ pc = "table" /\ step = "page"
    /\ LoopContinues(offset, total_rows)
    /\ IF batch_size < 0
       THEN FinishTable(ErrorResult("data", tables[idx], "NegativeLimit"))
       ELSE /\ sql' = AppendPage(sql, escaped_columns,
                                 PageRows(dbRows[tables[idx]], batch_size, offset))
            /\ offset' = NextOffset(offset, batch_size)
            /\ UNCHANGED <<pc, step, loopVars, sql_code, total_rows, escaped_columns,
                           columns>>
    /\ UNCHANGED <<dbVars, connVars, queries, requested, pureVars>>

\* the loop condition is false: return sql
BatchReturn ==
    /\ pc = "table" /\ step = "page"
    /\ ~LoopContinues(offset, total_rows)
    /\ FinishTable(<<DataEntry(tables[idx], total_rows, escaped_columns, sql)>>)
    /\ UNCHANGED <<dbVars, connVars, queries, requested, pureVars>>

NextBatch == BatchCount \/ BatchPage \/ BatchReturn

SpecBatch == InitBatch /\ [][NextBatch]_vars /\ WF_vars(NextBatch)

\* C28: whatever integer batch_size is, 0 and negative values included,
\* get_data_sql returns for each table, and a data export of several tables
\* gets past its last table.
C28_DataExportReturns == <>(pc = "show")

\* ------------------------------------------------------------------ SpecOrder
\* export_all_structures on tables with foreign keys: the tables in the name
\* order of get_tables, each with its constraints inside its own CREATE
\* TABLE, or with an error comment when its catalog queries failed.
InitOrder ==
    /\ MainOff /\ FmtOff /\ IdOff /\ TypeOff /\ InfoOff /\ GuiOff /\ BuildOff
    /\ dbFks \in [Tables -> SUBSET Tables]
    /\ sblock = <<>>

\* sql += self.get_structure_sql(table, schema), for the next table of the list
ExportStructure ==
    /\ Len(sblock) < Len(SortedSeq(Tables))
    /\ LET table == SortedSeq(Tables)[Len(sblock) + 1]
       IN \E ok \in BOOLEAN :
            sblock' = Append(sblock,
                             [table |-> table,
                              kind |-> IF ok THEN "create" ELSE "error",
                              references |-> IF ok THEN dbFks[table] ELSE {}])
    /\ UNCHANGED <<dbFks, mainVars, fmtVars, idVars, typeVars, infoVars, guiVars,
                   buildVars>>

NextOrder == ExportStructure

SpecOrder == InitOrder /\ [][NextOrder]_vars

\* C26: each foreign-key line of the structure block stands after the
\* CREATE TABLE of the table it references (or inside it, when a table
\* references itself), so that no statement of the block names a table that
\* the statements before it have not created.
C26_ReferencedTablesFirst ==
    \A i \in DOMAIN sblock :
        \A r \in sblock[i].references :
            \E j \in 1..i : sblock[j].kind = "create" /\ sblock[j].table = r

====
